---- MODULE Spec2Model ----
(***************************************************************************)
(* Model of the feecc workbench daemon: the WorkBench state machine        *)
(* (WorkBench.py), the Unit / ProductionStage assembly model (Unit.py,     *)
(* unit_utils.py), the persistence wrapper as far as units are stored and  *)
(* loaded again (database.py, _db_utils.py), the camera record (Camera.py) *)
(* the HTTP handlers that call the workbench (the routers), the watchers   *)
(* of the state stream (_workbench_router.py) and the notification         *)
(* brokers (Messenger.py).                                                 *)
(*                                                                         *)
(* Every workbench method is an operator from a "world" record (the        *)
(* fields of the WorkBench singleton, the database and the camera) to the  *)
(* world after the call; the field err holds the exception the call        *)
(* raised, if any.  A raised exception keeps the mutations made before it. *)
(***************************************************************************)
EXTENDS Integers, Sequences, FiniteSets, TLC

VARIABLES state, employee, unit, db, record, event, last, watcher, brockers, brocker, tasks, emitted, worker, datalog, calls

\* the notification brokers: the registry of the Messenger, the brokers made
\* so far, the emit_message tasks that wait for their turn on the event loop,
\* the number of messages emitted and the emit_message that a thread of the
\* thread pool runs
msgvars == <<brockers, brocker, tasks, emitted, worker>>

vars == <<state, employee, unit, db, record, event, last, watcher, msgvars, datalog, calls>>

----------------------------------------------------------------------------
(* Bounds of the model *)

\* number of units that create_new_unit may create
MaxUnits == 2

\* longest biography a unit may grow to by premature endings
MaxBio == 2

\* number of clients that may connect to the state stream
MaxWatchers == 2

\* number of clients that may connect to the notification stream
MaxBrockers == 2

\* number of messages that may be emitted
MaxMessages == 3

----------------------------------------------------------------------------
(* Values *)

\* None in a field of type str | None
None == "None"

\* None in a field that otherwise holds an object, a list, a dict or a code:
\* the absent value is the empty tuple, a present value x is Some(x), and
\* an internal id is itself a tuple, so that it compares with NoneObj
NoneObj == <<>>
Some(x) == <<x>>
Get(o) == o[1]

NoError == "ok"
StateForbiddenError == "StateForbiddenError"
AssertionError == "AssertionError"
ValueError == "ValueError"
IndexError == "IndexError"
PrinterError == "PrinterError"
HTTPException == "HTTPException"
UnitNotFoundError == "UnitNotFoundError"
ConnectionError == "ConnectionError"

AWAIT_LOGIN_STATE == "AwaitLogin"
AUTHORIZED_IDLING_STATE == "AuthorizedIdling"
UNIT_ASSIGNED_IDLING_STATE == "UnitAssignedIdling"
GATHER_COMPONENTS_STATE == "GatherComponents"
PRODUCTION_STAGE_ONGOING_STATE == "ProductionStageOngoing"

State == {AWAIT_LOGIN_STATE, AUTHORIZED_IDLING_STATE, UNIT_ASSIGNED_IDLING_STATE,
          GATHER_COMPONENTS_STATE, PRODUCTION_STAGE_ONGOING_STATE}

\* feecc_workbench/states.py is not part of the sources; the table is the
\* one of the specification, section 4.1
STATE_TRANSITION_MAP ==
    [s \in State |->
        CASE s = AWAIT_LOGIN_STATE -> {AUTHORIZED_IDLING_STATE}
          [] s = AUTHORIZED_IDLING_STATE ->
                {AWAIT_LOGIN_STATE, UNIT_ASSIGNED_IDLING_STATE, GATHER_COMPONENTS_STATE}
          [] s = UNIT_ASSIGNED_IDLING_STATE ->
                {AUTHORIZED_IDLING_STATE, PRODUCTION_STAGE_ONGOING_STATE}
          [] s = GATHER_COMPONENTS_STATE ->
                {AUTHORIZED_IDLING_STATE, UNIT_ASSIGNED_IDLING_STATE}
          [] s = PRODUCTION_STAGE_ONGOING_STATE -> {UNIT_ASSIGNED_IDLING_STATE}]

UnitStatus == {"production", "built", "revision", "finalized"}

\* the employees of the employee collection (rfid card ids)
Employees == {"card1", "card2"}

\* Employee.get_passport_code: a digest of card id, name and position
get_passport_code(e) ==
    CASE e = "card1" -> "sha256(card1 name position)"
      [] e = "card2" -> "sha256(card2 name position)"

\* timestamp(): the formatted time of the invocation
timestamp == "dd-mm-YYYY HH:MM:SS"

\* dict values of AdditionalInfo: functions from keys to strings
EmptyInfo == [k \in {} |-> ""]
InfoStart == [k \in {"k1"} |-> "start"]
InfoEnd == [k \in {"k1", "k2"} |-> "end"]

\* the request bodies of /workbench/start-operation (a dict is required)
StartInfos == {InfoStart}
\* the request bodies of /workbench/end-operation (the dict is optional)
EndInfos == {NoneObj, Some(InfoEnd)}
\* the metadata tag of a stage that WorkBench.shutdown ends
InfoShutdown == [k \in {"Ended reason"} |-> "Unfinished when Workbench shutdown sequence initiated"]
\* the premature_ending flags of the requests to /workbench/end-operation
PrematureEndings == {FALSE}

\* {**a, **b}
MergeInfo(a, b) ==
    [k \in (DOMAIN a) \cup (DOMAIN b) |-> IF k \in DOMAIN b THEN b[k] ELSE a[k]]

----------------------------------------------------------------------------
(* Production schemas (the productionSchemas collection) *)

SchemaIds == {"simple", "composite"}

\* further schemas of the collection: a composite of a composite and a
\* simple unit, a unit with no production stages and a unit with two
MoreSchemaIds == {"assembly", "bare", "double"}

ProductionSchema ==
    [s \in SchemaIds \cup MoreSchemaIds |->
        CASE s = "simple" ->
                [schema_id |-> s, production_stages |-> <<"stage1">>,
                 required_components_schema_ids |-> NoneObj]
          [] s = "composite" ->
                [schema_id |-> s, production_stages |-> <<"assembly">>,
                 required_components_schema_ids |-> Some(<<"simple">>)]
          [] s = "assembly" ->
                [schema_id |-> s, production_stages |-> <<"final assembly">>,
                 required_components_schema_ids |-> Some(<<"composite", "simple">>)]
          [] s = "bare" ->
                [schema_id |-> s, production_stages |-> <<>>,
                 required_components_schema_ids |-> NoneObj]
          [] s = "double" ->
                [schema_id |-> s, production_stages |-> <<"stage1", "stage2">>,
                 required_components_schema_ids |-> NoneObj]]

\* schema.required_components_schema_ids or []
RequiredIds(schema) ==
    IF schema.required_components_schema_ids = NoneObj
    THEN <<>> ELSE Get(schema.required_components_schema_ids)

Range(s) == {s[i] : i \in DOMAIN s}

----------------------------------------------------------------------------
(* ProductionStage and Unit (ProductionStage.py, Unit.py, unit_utils.py) *)

\* a fresh ProductionStage with the defaults of the dataclass
ProductionStage(name, parent_unit_uuid, number, schema_stage_id) ==
    [name |-> name, parent_unit_uuid |-> parent_unit_uuid, number |-> number,
     schema_stage_id |-> schema_stage_id, employee_name |-> None,
     session_start_time |-> None, session_end_time |-> None,
     ended_prematurely |-> FALSE, video_hashes |-> NoneObj,
     additional_info |-> NoneObj, completed |-> FALSE]

\* stage numbers are list positions of Python: the first stage has number 0
biography_factory_from_one(schema, parent_unit_uuid) ==
    [i \in 1..Len(schema.production_stages) |->
        ProductionStage(<<schema.production_stages[i]>>, parent_unit_uuid, i,
                        <<schema.schema_id, i>>)]

biography_factory(schema, parent_unit_uuid) ==
    [i \in 1..Len(schema.production_stages) |->
        ProductionStage(<<schema.production_stages[i]>>, parent_unit_uuid, i - 1,
                        <<schema.schema_id, i>>)]

\* Barcode(str(int(uuid, 16))[:12]).get_fullcode(): the digits of the uuid
\* followed by the EAN-13 check digit (the last data digit weighs 3)
get_fullcode(uuid) == <<uuid, (10 - ((3 * uuid) % 10)) % 10>>

\* {u.schema.schema_id: u for u in components_units}: a later unit of the
\* same schema replaces an earlier one
SlotsOfComponents(components_units) ==
    [k \in {components_units[i].schema_id : i \in DOMAIN components_units} |->
        LET idx == {i \in DOMAIN components_units : components_units[i].schema_id = k}
            top == CHOOSE i \in idx : \A j \in idx : j <= i
        IN components_units[top].internal_id]

\* the assertion of Unit.__init__ on the provided components
ComponentsArePartOfSchema(schema, components_units) ==
    \A i \in DOMAIN components_units :
        components_units[i].schema_id \in Range(RequiredIds(schema))

\* Unit.__init__
Unit(schema_id, uuid, biography, components_units, featured_in_int_id, passport_ipfs_cid, txn_hash, status) ==
    LET schema == ProductionSchema[schema_id] IN
    [schema_id |-> schema_id,
     uuid |-> uuid,
     internal_id |-> get_fullcode(uuid),
     status |-> IF schema.production_stages = <<>> /\ status = "production"
                THEN "built" ELSE status,
     passport_ipfs_cid |-> passport_ipfs_cid,
     txn_hash |-> txn_hash,
     components_units |-> components_units,
     featured_in_int_id |-> featured_in_int_id,
     biography |-> IF biography # <<>> THEN biography
                   ELSE biography_factory(schema, uuid),
     is_in_db |-> FALSE,
     component_slots |-> IF components_units # <<>>
                         THEN SlotsOfComponents(components_units)
                         ELSE [k \in Range(RequiredIds(schema)) |-> NoneObj]]

\* a components_filled that takes every unit for a filled one
components_filled_always(u) == TRUE

\* Unit.components_filled
components_filled(u) ==
    \A k \in DOMAIN u.component_slots : u.component_slots[k] # NoneObj

\* a search for the pending stage that takes the last one
PendingIndex_last(biography) ==
    IF \E i \in DOMAIN biography : ~biography[i].completed
    THEN CHOOSE i \in DOMAIN biography :
            /\ ~biography[i].completed
            /\ \A j \in (i + 1)..Len(biography) : biography[j].completed
    ELSE 0

\* the position (1-based) of the first stage that is not completed, 0 if none
PendingIndex(biography) ==
    IF \E i \in DOMAIN biography : ~biography[i].completed
    THEN CHOOSE i \in DOMAIN biography :
            /\ ~biography[i].completed
            /\ \A j \in 1..(i - 1) : biography[j].completed
    ELSE 0

\* Unit.next_pending_operation
next_pending_operation(u) ==
    IF PendingIndex(u.biography) = 0 THEN NoneObj
    ELSE Some(u.biography[PendingIndex(u.biography)])

\* self.biography[operation.number] = operation, a Python list assignment
\* (the callers raise IndexError for a number outside the list)
SetStage(biography, number, operation) ==
    [i \in DOMAIN biography |-> IF i = number + 1 THEN operation ELSE biography[i]]

\* an assign_component that fills the slot before it looks at the component
assign_component_eager(u, component) ==
    IF components_filled(u)
    THEN [unit |-> u, err |-> ValueError, messages |-> <<"warning">>]
    ELSE IF component.schema_id \notin DOMAIN u.component_slots
    THEN [unit |-> u, err |-> ValueError, messages |-> <<"warning">>]
    ELSE IF u.component_slots[component.schema_id] # NoneObj
    THEN [unit |-> u, err |-> ValueError, messages |-> <<"warning">>]
    ELSE LET c == [component EXCEPT !.featured_in_int_id = u.internal_id]
             filled == [u EXCEPT !.component_slots[component.schema_id] = c.internal_id,
                                 !.components_units = Append(@, c)]
         IN [unit |-> filled,
             err |-> IF component.status # "built" \/ component.featured_in_int_id # NoneObj
                     THEN ValueError ELSE NoError,
             messages |-> IF component.status # "built" \/ component.featured_in_int_id # NoneObj
                          THEN <<"warning">> ELSE <<"success">>]

\* Unit.assign_component; the result holds the composite after the call,
\* the exception raised, if any, and the messages handed to the Messenger
assign_component_unbuilt(u, component) ==
    IF components_filled(u)
    THEN [unit |-> u, err |-> ValueError, messages |-> <<"warning">>]
    ELSE IF component.schema_id \notin DOMAIN u.component_slots
    THEN [unit |-> u, err |-> ValueError, messages |-> <<"warning">>]
    ELSE IF u.component_slots[component.schema_id] # NoneObj
    THEN [unit |-> u, err |-> ValueError, messages |-> <<"warning">>]
    ELSE IF component.featured_in_int_id # NoneObj
    THEN [unit |-> u, err |-> ValueError, messages |-> <<"warning">>]
    ELSE LET c == [component EXCEPT !.featured_in_int_id = u.internal_id] IN
         [unit |-> [u EXCEPT !.component_slots[component.schema_id] = c.internal_id,
                             !.components_units = Append(@, c)],
          err |-> NoError, messages |-> <<"success">>]

assign_component(u, component) ==
    IF components_filled(u)
    THEN [unit |-> u, err |-> ValueError, messages |-> <<"warning">>]
    ELSE IF component.schema_id \notin DOMAIN u.component_slots
    THEN [unit |-> u, err |-> ValueError, messages |-> <<"warning">>]
    ELSE IF u.component_slots[component.schema_id] # NoneObj
    THEN [unit |-> u, err |-> ValueError, messages |-> <<"warning">>]
    ELSE IF component.status # "built"
    THEN [unit |-> u, err |-> ValueError, messages |-> <<"warning">>]
    ELSE IF component.featured_in_int_id # NoneObj
    THEN [unit |-> u, err |-> ValueError, messages |-> <<"warning">>]
    ELSE LET c == [component EXCEPT !.featured_in_int_id = u.internal_id] IN
         [unit |-> [u EXCEPT !.component_slots[component.schema_id] = c.internal_id,
                             !.components_units = Append(@, c)],
          err |-> NoError, messages |-> <<"success">>]

\* a Unit.start_operation that does not record who started the stage
Unit_start_operation_unsigned(u, e, additional_info) ==
    LET p == PendingIndex(u.biography) IN
    IF p = 0
    THEN [unit |-> u, err |-> AssertionError]
    ELSE [unit |-> [u EXCEPT !.biography[p].session_start_time = timestamp,
                             !.biography[p].additional_info = additional_info],
          err |-> NoError]

\* Unit.start_operation
Unit_start_operation(u, e, additional_info) ==
    LET p == PendingIndex(u.biography) IN
    IF p = 0
    THEN [unit |-> u, err |-> AssertionError]
    ELSE LET operation == [u.biography[p] EXCEPT
                              !.session_start_time = timestamp,
                              !.additional_info = additional_info,
                              !.employee_name = get_passport_code(e)]
             stamped == [u.biography EXCEPT ![p] = operation]
         IN IF operation.number + 1 \notin DOMAIN stamped
            THEN [unit |-> [u EXCEPT !.biography = stamped], err |-> IndexError]
            ELSE [unit |-> [u EXCEPT !.biography =
                                SetStage(stamped, operation.number, operation)],
                  err |-> NoError]

\* list.insert(pos, x) for a 0-based position pos >= 0
ListInsert(l, pos, x) ==
    LET at == IF pos > Len(l) THEN Len(l) ELSE pos IN
    SubSeq(l, 1, at) \o <<x>> \o SubSeq(l, at + 1, Len(l))

duplicate_current_operation_unnumbered(biography) ==
    LET cur_stage == biography[PendingIndex(biography)]
        target_pos == cur_stage.number + 1
        dup_operation == ProductionStage(cur_stage.name, cur_stage.parent_unit_uuid,
                                         target_pos, cur_stage.schema_stage_id)
    IN ListInsert(biography, target_pos, dup_operation)

\* Unit._duplicate_current_operation, on a biography with a pending stage
duplicate_current_operation(biography) ==
    LET cur_stage == biography[PendingIndex(biography)]
        target_pos == cur_stage.number + 1
        dup_operation == ProductionStage(cur_stage.name, cur_stage.parent_unit_uuid,
                                         target_pos, cur_stage.schema_stage_id)
        inserted == ListInsert(biography, target_pos, dup_operation)
    IN [i \in DOMAIN inserted |->
            IF i - 1 >= target_pos + 1
            THEN [inserted[i] EXCEPT !.number = @ + 1]
            ELSE inserted[i]]

\* a Unit.end_operation that takes the unit for built once a stage is ended
Unit_end_operation_built(u, video_hashes, additional_info, premature, override_timestamp) ==
    LET p == PendingIndex(u.biography) IN
    IF p = 0
    THEN [unit |-> u, err |-> ValueError]
    ELSE LET ended == [u.biography EXCEPT ![p].session_end_time =
                          IF override_timestamp # None THEN override_timestamp ELSE timestamp]
             bio == IF premature THEN duplicate_current_operation(ended) ELSE ended
             \* the position of the stage object after the insertion
             q == IF premature /\ u.biography[p].number + 1 <= p - 1 THEN p + 1 ELSE p
             op1 == IF premature
                    THEN [bio[q] EXCEPT !.name = Append(@, "(unfinished)"),
                                        !.ended_prematurely = TRUE]
                    ELSE bio[q]
             op2 == IF video_hashes # <<>>
                    THEN [op1 EXCEPT !.video_hashes = Some(video_hashes)] ELSE op1
             op3 == IF op2.additional_info # NoneObj
                    THEN [op2 EXCEPT !.additional_info =
                            Some(MergeInfo(Get(@), IF additional_info = NoneObj
                                                   THEN EmptyInfo ELSE Get(additional_info)))]
                    ELSE op2
             operation == [op3 EXCEPT !.completed = TRUE]
             done == SetStage([bio EXCEPT ![q] = operation], operation.number, operation)
         IN IF operation.number + 1 \notin DOMAIN bio
            THEN [unit |-> [u EXCEPT !.biography = [bio EXCEPT ![q] = operation]],
                  err |-> IndexError]
            ELSE [unit |-> [u EXCEPT !.biography = done,
                                     !.status = "built"],
                  err |-> NoError]

\* Unit.end_operation
Unit_end_operation(u, video_hashes, additional_info, premature, override_timestamp) ==
    LET p == PendingIndex(u.biography) IN
    IF p = 0
    THEN [unit |-> u, err |-> ValueError]
    ELSE LET ended == [u.biography EXCEPT ![p].session_end_time =
                          IF override_timestamp # None THEN override_timestamp ELSE timestamp]
             bio == IF premature THEN duplicate_current_operation(ended) ELSE ended
             \* the position of the stage object after the insertion
             q == IF premature /\ u.biography[p].number + 1 <= p - 1 THEN p + 1 ELSE p
             op1 == IF premature
                    THEN [bio[q] EXCEPT !.name = Append(@, "(unfinished)"),
                                        !.ended_prematurely = TRUE]
                    ELSE bio[q]
             op2 == IF video_hashes # <<>>
                    THEN [op1 EXCEPT !.video_hashes = Some(video_hashes)] ELSE op1
             op3 == IF op2.additional_info # NoneObj
                    THEN [op2 EXCEPT !.additional_info =
                            Some(MergeInfo(Get(@), IF additional_info = NoneObj
                                                   THEN EmptyInfo ELSE Get(additional_info)))]
                    ELSE op2
             operation == [op3 EXCEPT !.completed = TRUE]
             done == SetStage([bio EXCEPT ![q] = operation], operation.number, operation)
         IN IF operation.number + 1 \notin DOMAIN bio
            THEN [unit |-> [u EXCEPT !.biography = [bio EXCEPT ![q] = operation]],
                  err |-> IndexError]
            ELSE [unit |-> [u EXCEPT !.biography = done,
                                     !.status = IF \A i \in DOMAIN done : done[i].completed
                                                THEN "built" ELSE @],
                  err |-> NoError]

\* a _get_unit_list that looks at the unit and its own components only
get_unit_list_shallow(u) == <<u>> \o u.components_units

\* the units of a component tree in pre-order (unit_utils._get_unit_list)
RECURSIVE get_unit_list(_)
RECURSIVE FlattenUnits(_, _)
FlattenUnits(components, i) ==
    IF i > Len(components) THEN <<>>
    ELSE get_unit_list(components[i]) \o FlattenUnits(components, i + 1)

get_unit_list(u) == <<u>> \o FlattenUnits(u.components_units, 1)

\* unit_utils.get_first_unit_matching_status: NoneObj stands for the
\* AssertionError raised when no unit of the tree matches
get_first_unit_matching_status(u, target_statuses) ==
    LET l == get_unit_list(u)
        hits == {i \in DOMAIN l : l[i].status \in target_statuses}
    IN IF hits = {} THEN NoneObj
       ELSE Some(l[CHOOSE i \in hits : \A j \in hits : i <= j])

----------------------------------------------------------------------------
(* The unit collection and the stage collection (database.py, _db_utils.py).
   db is the sequence of the unit documents in the order of their insertion;
   every document carries the stage documents of its unit, which the
   aggregation pipeline of get_unit_by_internal_id joins to it.  The bulk
   write of the stages is keyed by stage id: the stored stages of the unit
   become those of the pushed biography. *)

\* _db_utils._get_unit_dict_data and the stages written along with it
get_unit_dict_data(u) ==
    [schema_id |-> u.schema_id,
     uuid |-> u.uuid,
     internal_id |-> u.internal_id,
     passport_ipfs_cid |-> u.passport_ipfs_cid,
     txn_hash |-> u.txn_hash,
     components_internal_ids |->
        [i \in DOMAIN u.components_units |-> u.components_units[i].internal_id],
     featured_in_int_id |-> u.featured_in_int_id,
     status |-> u.status,
     prod_stage_dicts |-> u.biography]

\* MongoDbWrapper.push_unit
RECURSIVE push_unit(_, _, _)
RECURSIVE PushComponents(_, _, _)
PushComponents(database, components, i) ==
    IF i > Len(components) THEN database
    ELSE PushComponents(push_unit(database, components[i], TRUE), components, i + 1)

push_unit(database, u, include_components) ==
    LET d == IF u.components_units # <<>> /\ include_components
             THEN PushComponents(database, u.components_units, 1)
             ELSE database
        stored == {i \in DOMAIN d : d[i].uuid = u.uuid}
    IN IF u.is_in_db
       THEN [i \in DOMAIN d |-> IF i \in stored THEN get_unit_dict_data(u) ELSE d[i]]
       ELSE Append(d, get_unit_dict_data(u))

\* MongoDbWrapper.get_unit_by_internal_id with _get_unit_from_raw_db_data:
\* NoneObj stands for the exception of a failed load (UnitNotFoundError, or
\* the AssertionError of Unit.__init__)
RECURSIVE get_unit_by_internal_id(_, _)
RECURSIVE LoadComponents(_, _, _)
LoadComponents(database, ids, i) ==
    IF i > Len(ids) THEN <<>>
    ELSE <<Get(get_unit_by_internal_id(database, ids[i]))>>
            \o LoadComponents(database, ids, i + 1)

get_unit_by_internal_id(database, unit_internal_id) ==
    LET result == {i \in DOMAIN database : database[i].internal_id = unit_internal_id} IN
    IF result = {} THEN NoneObj
    ELSE IF \E i \in result : \E j \in DOMAIN database[i].components_internal_ids :
                get_unit_by_internal_id(database, database[i].components_internal_ids[j])
                    = NoneObj
    THEN NoneObj
    ELSE LET unit_dict == database[CHOOSE i \in result : \A j \in result : i <= j]
             components_units == LoadComponents(database, unit_dict.components_internal_ids, 1)
             \* {"$sort": {"number": 1}}
             biography == SortSeq(unit_dict.prod_stage_dicts,
                                  LAMBDA a, b : a.number < b.number)
         IN IF ~ComponentsArePartOfSchema(ProductionSchema[unit_dict.schema_id],
                                          components_units)
            THEN NoneObj
            ELSE
            Some([Unit(unit_dict.schema_id, unit_dict.uuid, biography, components_units,
                       unit_dict.featured_in_int_id, unit_dict.passport_ipfs_cid,
                       unit_dict.txn_hash, unit_dict.status)
                  EXCEPT !.is_in_db = TRUE])

----------------------------------------------------------------------------
(* Camera (Camera.py).  The variable record is "NoCamera" when the camera
   is disabled in the configuration (WorkBench.camera is None), and
   otherwise describes Camera.record: None before the first recording,
   "ongoing" for a started record, "failed" for a record whose start
   failed (it has a file name but no start time), "ended" for a stopped one. *)

\* Camera.start_record: a new Record replaces the previous one
Camera_start_record(rec, started) == IF started THEN "ongoing" ELSE "failed"

\* Camera.end_record: every exception is logged and swallowed
Camera_end_record(rec, stopped) ==
    IF rec = "ongoing" /\ stopped THEN "ended" ELSE rec

----------------------------------------------------------------------------
(* WorkBench (WorkBench.py) *)

Raise(w, e) == [w EXCEPT !.err = e]

\* messenger.error, messenger.warning, messenger.success and messenger.info:
\* the call hands a message of that level to the Messenger
messenger_emit(w, level) == [w EXCEPT !.messages = Append(@, level)]

\* the world a call leaves, without its exception and its notifications
Effect(w) == [w EXCEPT !.err = NoError, !.messages = <<>>]

\* a validation that accepts every state of the enumeration as a target
validate_any_state(current, new_state) == new_state \in State

\* WorkBench._validate_state_transition: TRUE when no StateForbiddenError
\* is raised
validate_state_transition(current, new_state) ==
    new_state \in STATE_TRANSITION_MAP[current]

\* WorkBench.switch_state
switch_state(w, new_state) ==
    IF ~validate_state_transition(w.state, new_state)
    THEN Raise(messenger_emit(w, "error"), StateForbiddenError)
    ELSE [w EXCEPT !.state = new_state, !.event = TRUE]

\* a remove_unit that forgets to clear self.unit
remove_unit_keeps_unit(w) ==
    IF ~validate_state_transition(w.state, AUTHORIZED_IDLING_STATE)
    THEN Raise(messenger_emit(w, "error"), StateForbiddenError)
    ELSE IF w.unit = NoneObj
    THEN Raise(messenger_emit(w, "error"), AssertionError)
    ELSE switch_state(messenger_emit(w, "success"), AUTHORIZED_IDLING_STATE)

\* WorkBench.remove_unit
remove_unit(w) ==
    IF ~validate_state_transition(w.state, AUTHORIZED_IDLING_STATE)
    THEN Raise(messenger_emit(w, "error"), StateForbiddenError)
    ELSE IF w.unit = NoneObj
    THEN Raise(messenger_emit(w, "error"), AssertionError)
    ELSE switch_state([messenger_emit(w, "success") EXCEPT !.unit = NoneObj],
                      AUTHORIZED_IDLING_STATE)

\* WorkBench.log_in
log_in(w, e) ==
    IF ~validate_state_transition(w.state, AUTHORIZED_IDLING_STATE)
    THEN Raise(messenger_emit(w, "error"), StateForbiddenError)
    ELSE switch_state([messenger_emit(w, "success") EXCEPT !.employee = e],
                      AUTHORIZED_IDLING_STATE)

\* WorkBench.log_out
log_out(w) ==
    IF ~validate_state_transition(w.state, AWAIT_LOGIN_STATE)
    THEN Raise(messenger_emit(w, "error"), StateForbiddenError)
    ELSE LET w1 == IF w.state = UNIT_ASSIGNED_IDLING_STATE THEN remove_unit(w) ELSE w IN
         IF w1.err # NoError THEN w1
         ELSE IF w1.employee = None THEN Raise(w1, AssertionError)
         ELSE switch_state([messenger_emit(w1, "success") EXCEPT !.employee = None],
                           AWAIT_LOGIN_STATE)

\* a create_new_unit that puts the new unit on the workbench
create_new_unit_assigning(w, schema_id, label) ==
    IF w.state # AUTHORIZED_IDLING_STATE
    THEN Raise(messenger_emit(w, "error"), StateForbiddenError)
    ELSE LET u == Unit(schema_id, Len(w.db) + 1, <<>>, <<>>, NoneObj, None, None,
                       "production") IN
         IF label # "disabled" /\ w.employee = None THEN Raise(w, AssertionError)
         ELSE IF label = "failed" THEN Raise(messenger_emit(w, "error"), PrinterError)
         ELSE [w EXCEPT !.db = push_unit(w.db, u, TRUE),
                        !.unit = Some([u EXCEPT !.is_in_db = TRUE])]

\* WorkBench.create_new_unit; label is what the barcode printer does:
\* "disabled" by the configuration, "printed" or "failed"
create_new_unit(w, schema_id, label) ==
    IF w.state # AUTHORIZED_IDLING_STATE
    THEN Raise(messenger_emit(w, "error"), StateForbiddenError)
    ELSE LET u == Unit(schema_id, Len(w.db) + 1, <<>>, <<>>, NoneObj, None, None,
                       "production") IN
         IF label # "disabled" /\ w.employee = None THEN Raise(w, AssertionError)
         ELSE IF label = "failed" THEN Raise(messenger_emit(w, "error"), PrinterError)
         ELSE [w EXCEPT !.db = push_unit(w.db, u, TRUE)]

\* WorkBench.assign_unit
assign_unit(w, u) ==
    IF ~validate_state_transition(w.state, UNIT_ASSIGNED_IDLING_STATE)
    THEN Raise(messenger_emit(w, "error"), StateForbiddenError)
    ELSE LET override == u.status = "built" /\ u.passport_ipfs_cid = None
             allowed == {"production", "revision"}
             found == IF override \/ u.status \in allowed THEN Some(u)
                      ELSE get_first_unit_matching_status(u, allowed)
         IN IF found = NoneObj THEN Raise(messenger_emit(w, "warning"), AssertionError)
            ELSE LET w1 == [messenger_emit(w, "success") EXCEPT !.unit = found] IN
                 IF ~components_filled(Get(found))
                 THEN switch_state(w1, GATHER_COMPONENTS_STATE)
                 ELSE switch_state(w1, UNIT_ASSIGNED_IDLING_STATE)

\* WorkBench.start_operation; started: the camera could start the record
start_operation(w, additional_info, started) ==
    IF ~validate_state_transition(w.state, PRODUCTION_STAGE_ONGOING_STATE)
    THEN Raise(messenger_emit(w, "error"), StateForbiddenError)
    ELSE IF w.unit = NoneObj THEN Raise(messenger_emit(w, "error"), AssertionError)
    ELSE IF w.employee = None THEN Raise(messenger_emit(w, "error"), AssertionError)
    ELSE LET w1 == IF w.record # "NoCamera"
                   THEN [(IF started THEN w ELSE messenger_emit(w, "error")) EXCEPT
                            !.record = Camera_start_record(@, started)]
                   ELSE w
             r == Unit_start_operation(Get(w1.unit), w1.employee, Some(additional_info))
             w2 == [w1 EXCEPT !.unit = Some(r.unit)]
         IN IF r.err # NoError THEN Raise(w2, r.err)
            ELSE switch_state(w2, PRODUCTION_STAGE_ONGOING_STATE)

\* an assign_component_to_unit that leaves the signalling to switch_state
assign_component_to_unit_silent(w, component) ==
    IF ~(w.state = GATHER_COMPONENTS_STATE /\ w.unit # NoneObj)
    THEN Raise(w, AssertionError)
    ELSE LET r == assign_component(Get(w.unit), component) IN
         IF r.err # NoError THEN Raise([w EXCEPT !.messages = @ \o r.messages], r.err)
         ELSE LET w1 == [w EXCEPT !.unit = Some(r.unit), !.messages = @ \o r.messages] IN
              IF components_filled(r.unit)
              THEN switch_state([w1 EXCEPT !.db = push_unit(@, r.unit, TRUE)],
                                UNIT_ASSIGNED_IDLING_STATE)
              ELSE w1

\* WorkBench.assign_component_to_unit
assign_component_to_unit(w, component) ==
    IF ~(w.state = GATHER_COMPONENTS_STATE /\ w.unit # NoneObj)
    THEN Raise(w, AssertionError)
    ELSE LET r == assign_component(Get(w.unit), component) IN
         IF r.err # NoError THEN Raise([w EXCEPT !.messages = @ \o r.messages], r.err)
         ELSE LET w1 == [w EXCEPT !.unit = Some(r.unit), !.event = TRUE,
                                  !.messages = @ \o r.messages] IN
              IF components_filled(r.unit)
              THEN switch_state([w1 EXCEPT !.db = push_unit(@, r.unit, TRUE)],
                                UNIT_ASSIGNED_IDLING_STATE)
              ELSE w1

\* WorkBench._end_record: the camera record after the call and the hashes of
\* the published media; stopped: ffmpeg could be stopped, published: the
\* gateway accepted the file
end_record(rec, stopped, published) ==
    [record |-> Camera_end_record(rec, stopped),
     ipfs_hashes |-> IF rec # None /\ published THEN <<"cid">> ELSE <<>>,
     messages |-> IF rec # None /\ published THEN <<>> ELSE <<"warning">>]

\* WorkBench.end_operation
end_operation(w, additional_info, premature, stopped, published) ==
    IF ~validate_state_transition(w.state, UNIT_ASSIGNED_IDLING_STATE)
    THEN Raise(messenger_emit(w, "error"), StateForbiddenError)
    ELSE IF w.unit = NoneObj THEN Raise(messenger_emit(w, "error"), AssertionError)
    ELSE LET rec == IF w.record # "NoCamera" /\ w.employee # None
                    THEN end_record(w.record, stopped, published)
                    ELSE [record |-> w.record, ipfs_hashes |-> <<>>, messages |-> <<>>]
             r == Unit_end_operation(Get(w.unit), rec.ipfs_hashes, additional_info,
                                     premature, timestamp)
             w1 == [w EXCEPT !.record = rec.record, !.unit = Some(r.unit),
                             !.messages = @ \o rec.messages]
         IN IF r.err # NoError THEN Raise(w1, r.err)
            ELSE switch_state([w1 EXCEPT !.db = push_unit(@, r.unit, FALSE)],
                              UNIT_ASSIGNED_IDLING_STATE)

\* what the collaborators of upload_unit_passport do: the gateway is
\* disabled in the configuration; publish_file raises; the passport is
\* published and print_image raises for the QR code (its file is not
\* there); the passport is published and the print job of the QR code fails
\* in _print_image_task, which logs the failure and returns; or the passport
\* is published (and the QR code, if it is to be printed, is printed)
UploadOutcomes == {"no_gateway", "publish_failed", "print_failed", "print_task_failed", "published"}

\* the Datalog of the configuration: CONFIG.robonomics.enable_datalog and the
\* post_to_datalog tasks that upload_unit_passport has created
NoDatalog == [enable_datalog |-> FALSE, posts |-> <<>>]

\* asyncio.create_task(post_to_datalog(content, unit_internal_id)): the task
\* has made no attempt (i = 0) and holds no transaction hash
create_task_post_to_datalog(content, unit_internal_id) ==
    [content |-> content, unit_internal_id |-> unit_internal_id, i |-> 0,
     txn_hash |-> "", pc |-> "record"]

\* the lines 345 to 350 of upload_unit_passport: the post is scheduled when
\* the Datalog is enabled and the unit has a passport, and the unit is stored
schedule_and_push(w, u) ==
    [w EXCEPT !.datalog.posts =
                IF w.datalog.enable_datalog /\ u.passport_ipfs_cid # None
                THEN Append(@, create_task_post_to_datalog(u.passport_ipfs_cid, u.internal_id))
                ELSE @,
              !.db = push_unit(@, u, TRUE)]

\* an upload_unit_passport that takes the unit off the workbench once its
\* passport is stored
upload_unit_passport_removing(w, outcome) ==
    IF w.unit = NoneObj THEN Raise(messenger_emit(w, "error"), AssertionError)
    ELSE IF w.employee = None THEN Raise(messenger_emit(w, "error"), AssertionError)
    ELSE IF outcome = "publish_failed" THEN Raise(messenger_emit(w, "error"), ConnectionError)
    ELSE LET u == IF outcome = "no_gateway" THEN Get(w.unit)
                  ELSE [Get(w.unit) EXCEPT !.passport_ipfs_cid = "cid"]
             w1 == [(IF outcome \in {"print_failed", "print_task_failed"}
                     THEN messenger_emit(w, "error") ELSE w) EXCEPT !.unit = Some(u)]
         IN IF outcome = "print_failed" THEN Raise(messenger_emit(w1, "error"), PrinterError)
            ELSE remove_unit(schedule_and_push(w1, u))

\* WorkBench.upload_unit_passport
upload_unit_passport(w, outcome) ==
    IF w.unit = NoneObj THEN Raise(messenger_emit(w, "error"), AssertionError)
    ELSE IF w.employee = None THEN Raise(messenger_emit(w, "error"), AssertionError)
    ELSE IF outcome = "publish_failed" THEN Raise(messenger_emit(w, "error"), ConnectionError)
    ELSE LET u == IF outcome = "no_gateway" THEN Get(w.unit)
                  ELSE [Get(w.unit) EXCEPT !.passport_ipfs_cid = "cid"]
             w1 == [(IF outcome \in {"print_failed", "print_task_failed"}
                     THEN messenger_emit(w, "error") ELSE w) EXCEPT !.unit = Some(u)]
         IN IF outcome = "print_failed" THEN Raise(messenger_emit(w1, "error"), PrinterError)
            ELSE schedule_and_push(w1, u)

\* WorkBench.shutdown, its three steps: each is skipped when an earlier one
\* has raised
shutdown_end_operation(w, stopped, published) ==
    IF w.state = PRODUCTION_STAGE_ONGOING_STATE
    THEN end_operation(w, Some(InfoShutdown), TRUE, stopped, published)
    ELSE w

shutdown_remove_unit(w) ==
    IF w.err = NoError
        /\ w.state \in {UNIT_ASSIGNED_IDLING_STATE, GATHER_COMPONENTS_STATE}
    THEN remove_unit(w)
    ELSE w

shutdown_log_out(w) ==
    IF w.err = NoError /\ w.state = AUTHORIZED_IDLING_STATE
    THEN log_out(w)
    ELSE w

shutdown_complete(w) == IF w.err = NoError THEN messenger_emit(w, "success") ELSE w

\* WorkBench.shutdown
shutdown(w, stopped, published) ==
    shutdown_complete(shutdown_log_out(shutdown_remove_unit(
        shutdown_end_operation(messenger_emit(w, "warning"), stopped, published))))

----------------------------------------------------------------------------
(* The state machine: one action per HTTP handler *)

World ==
    [state |-> state, employee |-> employee, unit |-> unit, db |-> db,
     record |-> record, event |-> event, datalog |-> datalog, messages |-> <<>>,
     err |-> NoError]

\* the world that a call leaves, or that it has made when it is suspended,
\* becomes the next state
Apply(w) ==
    /\ state' = w.state
    /\ employee' = w.employee
    /\ unit' = w.unit
    /\ db' = w.db
    /\ record' = w.record
    /\ event' = w.event
    /\ datalog' = w.datalog
    \* asyncio.Event.set wakes every watcher that waits for the event
    /\ watcher' = [i \in DOMAIN watcher |->
                        IF watcher[i].pc = "waiting" /\ ~event /\ w.event
                        THEN [watcher[i] EXCEPT !.pc = "woken"]
                        ELSE watcher[i]]
    /\ UNCHANGED msgvars

\* the world after a call becomes the next state; last records the latest
\* call that returned normally or left a mutation behind: the handler, the
\* exception it raised and the workbench state it was made in.  A call that
\* raises and changes nothing leaves no trace and is a stuttering step; what
\* such a call returns is read off the operator applied to World.
Return(op, w) ==
    /\ Apply(w)
    /\ last' = IF w.err = NoError \/ Effect(w) # World
               THEN [op |-> op, err |-> w.err, from |-> state]
               ELSE last
    /\ UNCHANGED calls

\* the internal ids of the stored units
StoredIds == {db[i].internal_id : i \in DOMAIN db}

\* no client is connected to the streams and nothing has been emitted
NoClients ==
    /\ watcher = <<>>
    /\ brockers = <<>>
    /\ brocker = <<>>
    /\ tasks = <<>>
    /\ emitted = 0
    /\ worker = NoneObj

Init ==
    /\ state = AWAIT_LOGIN_STATE
    /\ employee = None
    /\ unit = NoneObj
    /\ db = <<>>
    /\ record = "NoCamera"
    /\ event = FALSE
    /\ last = [op |-> "init", err |-> NoError, from |-> AWAIT_LOGIN_STATE]
    /\ NoClients
    /\ datalog = NoDatalog
    /\ calls = <<>>

\* POST /employee/log-in
LogIn(e) == Return("log_in", log_in(World, e))

\* POST /employee/log-out
LogOut == Return("log_out", log_out(World))

\* POST /unit/new/{schema_id}
CreateUnit(schema_id, label) ==
    /\ state = AUTHORIZED_IDLING_STATE => Len(db) < MaxUnits
    \* a call that is rejected for its state reads neither argument
    /\ state # AUTHORIZED_IDLING_STATE => (schema_id = "simple" /\ label = "disabled")
    /\ Return("create_new_unit", create_new_unit(World, schema_id, label))

\* POST /workbench/assign-unit/{unit_internal_id}
AssignUnit(unit_internal_id) ==
    LET loaded == get_unit_by_internal_id(db, unit_internal_id) IN
    IF loaded = NoneObj
    THEN Return("assign_unit", Raise(World, HTTPException))
    ELSE Return("assign_unit", assign_unit(World, Get(loaded)))

\* POST /workbench/remove-unit
RemoveUnit == Return("remove_unit", remove_unit(World))

\* POST /unit/assign-component/{unit_internal_id}
AssignComponent(unit_internal_id) ==
    LET loaded == get_unit_by_internal_id(db, unit_internal_id) IN
    IF loaded = NoneObj \/ state # GATHER_COMPONENTS_STATE
    THEN Return("assign_component", Raise(World, HTTPException))
    ELSE Return("assign_component", assign_component_to_unit(World, Get(loaded)))

StartReachesCamera ==
    /\ validate_state_transition(state, PRODUCTION_STAGE_ONGOING_STATE)
    /\ unit # NoneObj /\ employee # None /\ record # "NoCamera"

EndReachesCamera ==
    /\ validate_state_transition(state, UNIT_ASSIGNED_IDLING_STATE)
    /\ unit # NoneObj /\ employee # None /\ record # "NoCamera"

\* POST /workbench/start-operation
StartOperation(additional_info, started) ==
    \* the camera is asked only when the call gets as far as the record
    /\ ~StartReachesCamera => started
    /\ Return("start_operation", start_operation(World, additional_info, started))

\* POST /workbench/end-operation
EndOperation(additional_info, premature, stopped, published) ==
    /\ (premature /\ unit # NoneObj) => Len(Get(unit).biography) < MaxBio
    \* ffmpeg and the gateway are asked only when the call gets as far as them
    /\ ~(EndReachesCamera /\ record = "ongoing") => stopped
    /\ ~(EndReachesCamera /\ record # None) => published
    /\ Return("end_operation",
              end_operation(World, additional_info, premature, stopped, published))

\* POST /unit/upload
UploadPassport(outcome) ==
    IF employee = None
    THEN /\ outcome = "published"
         /\ Return("upload_unit_passport", Raise(World, StateForbiddenError))
    ELSE /\ unit = NoneObj => outcome = "published"
         /\ Return("upload_unit_passport", upload_unit_passport(World, outcome))

\* the shutdown event of the application
Shutdown(stopped, published) ==
    /\ (state = PRODUCTION_STAGE_ONGOING_STATE /\ unit # NoneObj) =>
            Len(Get(unit).biography) < MaxBio
    /\ ~(state = PRODUCTION_STAGE_ONGOING_STATE /\ EndReachesCamera
            /\ record = "ongoing") => stopped
    /\ ~(state = PRODUCTION_STAGE_ONGOING_STATE /\ EndReachesCamera
            /\ record # None) => published
    /\ Return("shutdown", shutdown(World, stopped, published))

Next ==
    \/ \E e \in Employees : LogIn(e)
    \/ LogOut
    \/ \E schema_id \in SchemaIds, label \in {"disabled", "printed", "failed"} :
            CreateUnit(schema_id, label)
    \/ \E id \in StoredIds : AssignUnit(id)
    \/ RemoveUnit
    \/ \E id \in StoredIds : AssignComponent(id)
    \/ \E info \in StartInfos, started \in BOOLEAN : StartOperation(info, started)
    \/ \E info \in EndInfos, premature \in PrematureEndings, stopped \in BOOLEAN,
          published \in BOOLEAN : EndOperation(info, premature, stopped, published)

Spec == Init /\ [][Next]_vars

----------------------------------------------------------------------------
(* Assignment of units that other services have staged: the collection
   holds an assembly (uuid 1) of a composite (uuid 2, with its simple
   component, uuid 3) and a simple unit (uuid 4); the status of each and
   the passports of the two composites are whatever the collection holds *)

\* the document of a unit with the given status and its stage documents:
\* the stages of a unit that is not in production have been worked
TreeDocument(schema_id, uuid, components_internal_ids, featured_in_int_id, passport_ipfs_cid, status) ==
    [schema_id |-> schema_id,
     uuid |-> uuid,
     internal_id |-> get_fullcode(uuid),
     passport_ipfs_cid |-> passport_ipfs_cid,
     txn_hash |-> None,
     components_internal_ids |-> components_internal_ids,
     featured_in_int_id |-> featured_in_int_id,
     status |-> status,
     prod_stage_dicts |->
        [i \in DOMAIN ProductionSchema[schema_id].production_stages |->
            IF status = "production"
            THEN biography_factory(ProductionSchema[schema_id], uuid)[i]
            ELSE [biography_factory(ProductionSchema[schema_id], uuid)[i] EXCEPT
                    !.employee_name = get_passport_code("card1"),
                    !.session_start_time = timestamp,
                    !.session_end_time = timestamp,
                    !.additional_info = Some(InfoStart),
                    !.completed = TRUE]]]

\* the documents of the four units
TreeDocuments(status, passport) ==
    <<TreeDocument("assembly", 1, <<get_fullcode(2), get_fullcode(4)>>, NoneObj,
                   passport[1], status[1]),
      TreeDocument("composite", 2, <<get_fullcode(3)>>, get_fullcode(1),
                   passport[2], status[2]),
      TreeDocument("simple", 3, <<>>, get_fullcode(2), None, status[3]),
      TreeDocument("simple", 4, <<>>, get_fullcode(1), None, status[4])>>

InitAssignTree ==
    /\ state = AUTHORIZED_IDLING_STATE
    /\ employee = "card1"
    /\ unit = NoneObj
    /\ \E status \in [1..4 -> UnitStatus], passport \in [1..2 -> {None, "cid"}] :
            db = TreeDocuments(status, passport)
    /\ record = "NoCamera"
    /\ event = FALSE
    /\ last = [op |-> "log_in", err |-> NoError, from |-> AWAIT_LOGIN_STATE]
    /\ NoClients
    /\ datalog = NoDatalog
    /\ calls = <<>>

\* the assembly is put on the workbench and taken off it again
NextAssignTree ==
    \/ AssignUnit(get_fullcode(1))
    \/ RemoveUnit

SpecAssignTree == InitAssignTree /\ [][NextAssignTree]_vars

\* The gathering of components: a collection with an assembly of two slots
\* (1), a built composite with its component (2, 3), a built simple unit (4),
\* a simple unit in production (5) and a composite with its slot empty (6)
GatherDocuments ==
    <<TreeDocument("assembly", 1, <<>>, NoneObj, None, "production"),
      TreeDocument("composite", 2, <<get_fullcode(3)>>, NoneObj, None, "built"),
      TreeDocument("simple", 3, <<>>, get_fullcode(2), None, "built"),
      TreeDocument("simple", 4, <<>>, NoneObj, None, "built"),
      TreeDocument("simple", 5, <<>>, NoneObj, None, "production"),
      TreeDocument("composite", 6, <<>>, NoneObj, None, "production")>>

InitGather ==
    /\ state = AWAIT_LOGIN_STATE
    /\ employee = None
    /\ unit = NoneObj
    /\ db = GatherDocuments
    /\ record = "NoCamera"
    /\ event = FALSE
    /\ last = [op |-> "init", err |-> NoError, from |-> AWAIT_LOGIN_STATE]
    /\ NoClients
    /\ datalog = NoDatalog
    /\ calls = <<>>

NextGather ==
    \/ LogIn("card1")
    \/ LogOut
    \/ \E id \in StoredIds : AssignUnit(id)
    \/ RemoveUnit
    \/ \E id \in StoredIds : AssignComponent(id)
    \/ StartOperation(InfoStart, TRUE)
    \/ EndOperation(NoneObj, FALSE, TRUE, TRUE)

SpecGather == InitGather /\ [][NextGather]_vars

\* The life of the units from their creation: units of a schema with one
\* stage, of a schema without stages and composites, with stages that are
\* ended for good or prematurely
NextStatus ==
    \/ LogIn("card1")
    \/ LogOut
    \/ \E schema_id \in {"simple", "composite", "bare"} : CreateUnit(schema_id, "disabled")
    \/ \E id \in StoredIds : AssignUnit(id)
    \/ RemoveUnit
    \/ \E id \in StoredIds : AssignComponent(id)
    \/ StartOperation(InfoStart, TRUE)
    \/ \E premature \in BOOLEAN : EndOperation(NoneObj, premature, TRUE, TRUE)

SpecStatus == Init /\ [][NextStatus]_vars

\* The work on units without components, of a schema with one stage and of
\* a schema with two: every stage is ended for good
NextCycle ==
    \/ LogIn("card1")
    \/ LogOut
    \/ \E schema_id \in {"simple", "double"} : CreateUnit(schema_id, "disabled")
    \/ \E id \in StoredIds : AssignUnit(id)
    \/ RemoveUnit
    \/ StartOperation(InfoStart, TRUE)
    \/ \E info \in EndInfos : EndOperation(info, FALSE, TRUE, TRUE)

SpecCycle == Init /\ [][NextCycle]_vars

\* The workbench with the camera enabled in the configuration: no record
\* has been made yet; the camera, ffmpeg and the gateway may fail
InitCamera ==
    /\ state = AWAIT_LOGIN_STATE
    /\ employee = None
    /\ unit = NoneObj
    /\ db = <<>>
    /\ record = None
    /\ event = FALSE
    /\ last = [op |-> "init", err |-> NoError, from |-> AWAIT_LOGIN_STATE]
    /\ NoClients
    /\ datalog = NoDatalog
    /\ calls = <<>>

NextCamera ==
    \/ LogIn("card1")
    \/ LogOut
    \/ \E schema_id \in SchemaIds : CreateUnit(schema_id, "disabled")
    \/ \E id \in StoredIds : AssignUnit(id)
    \/ RemoveUnit
    \/ \E id \in StoredIds : AssignComponent(id)
    \/ \E started \in BOOLEAN : StartOperation(InfoStart, started)
    \/ \E stopped \in BOOLEAN, published \in BOOLEAN :
            EndOperation(Some(InfoEnd), FALSE, stopped, published)

SpecCamera == InitCamera /\ [][NextCamera]_vars

\* the handlers of Next together with POST /unit/upload
NextUpload ==
    \/ Next
    \/ \E outcome \in UploadOutcomes : UploadPassport(outcome)

SpecUpload == Init /\ [][NextUpload]_vars

\* the handlers of Next together with the shutdown event
NextShutdown ==
    \/ Next
    \/ \E stopped \in BOOLEAN, published \in BOOLEAN : Shutdown(stopped, published)

SpecShutdown == Init /\ [][NextShutdown]_vars

----------------------------------------------------------------------------
(* The state stream (_workbench_router.py).  Every client of
   GET /workbench/status/stream runs state_update_generator on the one
   STATE_SWITCH_EVENT.  The event loop runs a coroutine from one suspension
   point to the next without interruption, so a watcher has three steps: it
   is suspended at its yield while the snapshot is sent, it is suspended in
   event.wait(), and between the two it clears the event.  watcher[i].pc is
   "start" for a generator that has not run yet, "yielded" at the yield,
   "waiting" in event.wait(), "woken" once the event was set while it
   waited, "closed" after the client has gone; watcher[i].sent is the
   snapshot it yielded last. *)

\* Unit.assigned_components
assigned_components(u) ==
    LET assigned == IF u.components_units = <<>>
                    THEN [k \in {} |-> NoneObj]
                    ELSE SlotsOfComponents(u.components_units)
        all == [k \in DOMAIN assigned \cup Range(RequiredIds(ProductionSchema[u.schema_id])) |->
                    IF k \in DOMAIN assigned THEN assigned[k] ELSE NoneObj]
    IN IF DOMAIN all = {} THEN NoneObj ELSE Some(all)

\* get_workbench_status_data
get_workbench_status_data ==
    [state |-> state,
     employee_logged_in |-> employee # None,
     employee |-> employee,
     operation_ongoing |-> state = PRODUCTION_STAGE_ONGOING_STATE,
     unit_internal_id |-> IF unit # NoneObj THEN Some(Get(unit).internal_id) ELSE NoneObj,
     unit_status |-> IF unit # NoneObj THEN Get(unit).status ELSE None,
     unit_biography |-> IF unit # NoneObj
                        THEN Some([i \in DOMAIN Get(unit).biography |->
                                        Get(unit).biography[i].name])
                        ELSE NoneObj,
     unit_components |-> IF unit # NoneObj THEN assigned_components(Get(unit)) ELSE NoneObj]

\* what a step of a watcher leaves alone
WatcherFrame == UNCHANGED <<state, employee, unit, db, record, last, msgvars, datalog, calls>>

\* GET /workbench/status/stream: a client connects
stream_workbench_status ==
    /\ Len(watcher) < MaxWatchers
    /\ watcher' = Append(watcher, [pc |-> "start", sent |-> NoneObj])
    /\ event' = event
    /\ WatcherFrame

\* state_update_generator, up to the yield: the snapshot is taken and sent
WatcherYield(i) ==
    /\ watcher[i].pc \in {"start", "woken"}
    /\ watcher' = [watcher EXCEPT ![i] = [pc |-> "yielded",
                                          sent |-> Some(get_workbench_status_data)]]
    /\ event' = event
    /\ WatcherFrame

\* state_update_generator, from the yield to event.wait(): the event is
\* cleared and the watcher waits for it
WatcherClearWait(i) ==
    /\ watcher[i].pc = "yielded"
    /\ event' = FALSE
    /\ watcher' = [watcher EXCEPT ![i].pc = "waiting"]
    /\ WatcherFrame

\* the client disconnects: CancelledError at the yield or in event.wait()
WatcherCancelled(i) ==
    /\ watcher[i].pc \in {"yielded", "waiting", "woken"}
    /\ watcher' = [watcher EXCEPT ![i].pc = "closed"]
    /\ event' = event
    /\ WatcherFrame

\* a collection with a composite whose slot is empty and a built unit for it
WatchDocuments ==
    <<TreeDocument("composite", 1, <<>>, NoneObj, None, "production"),
      TreeDocument("simple", 2, <<>>, NoneObj, None, "built")>>

InitWatchers ==
    /\ state = AWAIT_LOGIN_STATE
    /\ employee = None
    /\ unit = NoneObj
    /\ db = WatchDocuments
    /\ record = "NoCamera"
    /\ event = FALSE
    /\ last = [op |-> "init", err |-> NoError, from |-> AWAIT_LOGIN_STATE]
    /\ NoClients
    /\ datalog = NoDatalog
    /\ calls = <<>>

NextWatchers ==
    \/ LogIn("card1")
    \/ LogOut
    \/ AssignUnit(get_fullcode(1))
    \/ RemoveUnit
    \/ AssignComponent(get_fullcode(2))
    \/ StartOperation(InfoStart, TRUE)
    \/ EndOperation(NoneObj, FALSE, TRUE, TRUE)
    \/ stream_workbench_status
    \/ \E i \in DOMAIN watcher : WatcherYield(i)
    \/ \E i \in DOMAIN watcher : WatcherClearWait(i)
    \/ \E i \in DOMAIN watcher : WatcherCancelled(i)

\* the event loop runs every coroutine that is ready to run
SpecWatchers ==
    /\ InitWatchers
    /\ [][NextWatchers]_vars
    /\ \A i \in 1..MaxWatchers :
            /\ WF_vars(i \in DOMAIN watcher /\ WatcherYield(i))
            /\ WF_vars(i \in DOMAIN watcher /\ WatcherClearWait(i))

----------------------------------------------------------------------------
(* The notifications (Messenger.py).  brocker[b] is the MessageBrocker
   that the b-th client of the notification stream obtained: its alive flag
   and its feed; brockers is Messenger._brockers, the registry, as the
   sequence of the brokers' numbers.  A message is the number of its
   emission: emitted counts the calls of emit_message that have begun.
   Messenger._emit_message_sync hands emit_message to the event loop
   as a task; the loop runs the tasks in the order of their creation, and
   emit_message has no suspension point as long as no feed is full, so an
   emission on the event loop is one step.  The handlers declared with def
   (log-in, log-out, assign-unit, remove-unit) run in a thread of the thread
   pool, where asyncio.create_task finds no running loop and raises
   RuntimeError: _emit_message_sync then runs emit_message with asyncio.run
   in that thread, statement by statement next to the event loop.  worker is
   that emission: its message, the index i of its loop, its brocker_cnt and
   the exception it raised. *)

\* asyncio.Queue(): the maxsize of a feed, 0 for a queue without bound
maxsize == 0

\* asyncio.Queue.full
full(feed) == IF maxsize <= 0 THEN FALSE ELSE Len(feed) >= maxsize

\* Messenger.emit_message: the registry and the brokers after the call
emit_message(registry, made, message) ==
    LET live == SelectSeq(registry, LAMBDA b : made[b].alive) IN
    [brockers |-> live,
     brocker |-> [b \in DOMAIN made |->
                    IF b \in Range(live)
                    THEN [made[b] EXCEPT !.feed = Append(@, message)]
                    ELSE made[b]]]

\* what the notifications leave alone
MessengerFrame == UNCHANGED <<state, employee, unit, db, record, event, last, watcher, datalog, calls>>

\* message_generator connects: Messenger.get_brocker
get_brocker ==
    /\ Len(brocker) < MaxBrockers
    /\ brocker' = Append(brocker, [alive |-> TRUE, feed |-> <<>>])
    /\ brockers' = Append(brockers, Len(brocker) + 1)
    /\ UNCHANGED <<tasks, emitted, worker>>
    /\ MessengerFrame

\* Messenger._emit_message_sync: asyncio.create_task(emit_message(...))
emit_message_sync ==
    /\ emitted + Len(tasks) < MaxMessages
    /\ tasks' = Append(tasks, "emit_message")
    /\ UNCHANGED <<brockers, brocker, emitted, worker>>
    /\ MessengerFrame

\* the event loop runs the oldest emit_message task to its end; send_message waits
\* when the feed of a broker it sends to is full
EmitMessage ==
    /\ tasks # <<>>
    /\ \A b \in Range(brockers) : brocker[b].alive => ~full(brocker[b].feed)
    /\ emitted' = emitted + 1
    /\ brockers' = emit_message(brockers, brocker, emitted + 1).brockers
    /\ brocker' = emit_message(brockers, brocker, emitted + 1).brocker
    /\ tasks' = Tail(tasks)
    /\ UNCHANGED worker
    /\ MessengerFrame

\* message_generator reads: MessageBrocker.get_message
get_message(b) ==
    /\ brocker[b].alive
    /\ brocker[b].feed # <<>>
    /\ brocker' = [brocker EXCEPT ![b].feed = Tail(@)]
    /\ UNCHANGED <<brockers, tasks, emitted, worker>>
    /\ MessengerFrame

\* the client disconnects: message_generator catches CancelledError and
\* calls MessageBrocker.kill
kill(b) ==
    /\ brocker[b].alive
    /\ brocker' = [brocker EXCEPT ![b].alive = FALSE]
    /\ UNCHANGED <<brockers, tasks, emitted, worker>>
    /\ MessengerFrame

\* Messenger._emit_message_sync in a thread without a running loop:
\* asyncio.run(emit_message(...)) begins, the registry is pruned and counted
WorkerEmitMessage ==
    /\ worker = NoneObj
    /\ emitted + Len(tasks) < MaxMessages
    /\ emitted' = emitted + 1
    /\ brockers' = SelectSeq(brockers, LAMBDA b : brocker[b].alive)
    /\ worker' = Some([message |-> emitted + 1, i |-> 0,
                       brocker_cnt |-> Len(SelectSeq(brockers, LAMBDA b : brocker[b].alive)),
                       err |-> NoError])
    /\ UNCHANGED <<brocker, tasks>>
    /\ MessengerFrame

\* one turn of "for i in range(brocker_cnt)" in the thread:
\* await self._brockers[i].send_message(message_) on the registry as it is
WorkerSendMessage ==
    /\ worker # NoneObj
    /\ Get(worker).err = NoError
    /\ Get(worker).i < Get(worker).brocker_cnt
    /\ IF Get(worker).i + 1 \notin DOMAIN brockers
       THEN /\ worker' = Some([Get(worker) EXCEPT !.err = IndexError])
            /\ brocker' = brocker
       ELSE /\ ~full(brocker[brockers[Get(worker).i + 1]].feed)
            /\ brocker' = [brocker EXCEPT ![brockers[Get(worker).i + 1]].feed =
                                Append(@, Get(worker).message)]
            /\ worker' = Some([Get(worker) EXCEPT !.i = @ + 1])
    /\ UNCHANGED <<brockers, tasks, emitted>>
    /\ MessengerFrame

\* the emission in the thread returns, or its exception leaves asyncio.run
WorkerReturn ==
    /\ worker # NoneObj
    /\ Get(worker).err # NoError \/ Get(worker).i = Get(worker).brocker_cnt
    /\ worker' = NoneObj
    /\ UNCHANGED <<brockers, brocker, tasks, emitted>>
    /\ MessengerFrame

NextMessenger ==
    \/ get_brocker
    \/ emit_message_sync
    \/ EmitMessage
    \/ WorkerEmitMessage
    \/ WorkerSendMessage
    \/ WorkerReturn
    \/ \E b \in DOMAIN brocker : get_message(b)
    \/ \E b \in DOMAIN brocker : kill(b)

SpecMessenger == Init /\ [][NextMessenger]_vars

----------------------------------------------------------------------------
(* The posts to the Robonomics Datalog (robonomics.py).  post_to_datalog
   runs as a task of its own beside the handlers: it is suspended in every
   datalog_client.record and in unit_update_single_field, so an attempt and
   the update of the unit document are steps of their own.  A post is
   "record" while it has attempts to make, "update" once an attempt returned
   a transaction hash, "done" after the hash is stored and "raised" after
   the exception of its last attempt left the task. *)

\* retry_cnt of post_to_datalog
retry_cnt == 3

\* a post_to_datalog that goes on after its third attempt
post_to_datalog_record_once_more(post, ok) ==
    IF ok
    THEN [post EXCEPT !.i = @ + 1, !.txn_hash = "txn", !.pc = "update"]
    ELSE IF post.i < retry_cnt
    THEN [post EXCEPT !.i = @ + 1]
    ELSE [post EXCEPT !.i = @ + 1, !.pc = "raised"]

\* one turn of "for i in range(1, retry_cnt + 1)" of post_to_datalog; ok:
\* datalog_client.record returned the hash of the transaction
post_to_datalog_record(post, ok) ==
    IF ok
    THEN [post EXCEPT !.i = @ + 1, !.txn_hash = "txn", !.pc = "update"]
    ELSE IF post.i + 1 < retry_cnt
    THEN [post EXCEPT !.i = @ + 1]
    ELSE [post EXCEPT !.i = @ + 1, !.pc = "raised"]

\* MongoDbWrapper.unit_update_single_field(unit_internal_id, "txn_hash", val):
\* find_one_and_update sets the field of the first document that matches
unit_update_single_field(database, unit_internal_id, field_val) ==
    LET result == {i \in DOMAIN database : database[i].internal_id = unit_internal_id} IN
    [i \in DOMAIN database |->
        IF i \in result /\ \A j \in result : i <= j
        THEN [database[i] EXCEPT !.txn_hash = field_val]
        ELSE database[i]]

\* what a step of a post leaves alone
DatalogFrame == UNCHANGED <<state, employee, unit, record, event, last, watcher, msgvars, calls>>

\* the task of the k-th post makes an attempt
DatalogRecord(k, ok) ==
    /\ datalog.posts[k].pc = "record"
    /\ datalog' = [datalog EXCEPT !.posts[k] = post_to_datalog_record(@, ok)]
    /\ db' = db
    /\ DatalogFrame

\* the task of the k-th post stores the hash: "assert txn_hash" and
\* unit_update_single_field
DatalogUpdate(k) ==
    /\ datalog.posts[k].pc = "update"
    /\ IF datalog.posts[k].txn_hash = ""
       THEN /\ datalog' = [datalog EXCEPT !.posts[k].pc = "raised"]
            /\ db' = db
       ELSE /\ datalog' = [datalog EXCEPT !.posts[k].pc = "done"]
            /\ db' = unit_update_single_field(db, datalog.posts[k].unit_internal_id,
                                              datalog.posts[k].txn_hash)
    /\ DatalogFrame

\* number of posts that upload_unit_passport may schedule
MaxPosts == 2

\* POST /unit/upload with the Datalog enabled
UploadAndPost(outcome) ==
    /\ Len(datalog.posts) < MaxPosts
    /\ UploadPassport(outcome)

\* the workbench with the Datalog enabled in the configuration
InitDatalog ==
    /\ state = AWAIT_LOGIN_STATE
    /\ employee = None
    /\ unit = NoneObj
    /\ db = <<>>
    /\ record = "NoCamera"
    /\ event = FALSE
    /\ last = [op |-> "init", err |-> NoError, from |-> AWAIT_LOGIN_STATE]
    /\ NoClients
    /\ datalog = [enable_datalog |-> TRUE, posts |-> <<>>]
    /\ calls = <<>>

NextDatalog ==
    \/ LogIn("card1")
    \/ LogOut
    \/ CreateUnit("simple", "disabled")
    \/ \E id \in StoredIds : AssignUnit(id)
    \/ RemoveUnit
    \/ StartOperation(InfoStart, TRUE)
    \/ EndOperation(NoneObj, FALSE, TRUE, TRUE)
    \/ \E outcome \in UploadOutcomes : UploadAndPost(outcome)
    \/ \E k \in DOMAIN datalog.posts, ok \in BOOLEAN : DatalogRecord(k, ok)
    \/ \E k \in DOMAIN datalog.posts : DatalogUpdate(k)

SpecDatalog == InitDatalog /\ [][NextDatalog]_vars

----------------------------------------------------------------------------
(* The workbench state machine: claims C1 to C10 *)

C2_ForbiddenCallChangesNothing ==
    [][last'.err = StateForbiddenError =>
            (state' = state /\ employee' = employee /\ unit' = unit)]_vars

\* C3: login takes effect only in AwaitLogin, where it succeeds; in every
\* other state it replaces no employee and changes no state.
C3_LoginOnlyFromAwaitLogin ==
    [][last'.op = "log_in" =>
            (state = AWAIT_LOGIN_STATE /\ last'.err = NoError)]_vars

\* C4: assignUnit takes effect only in AuthorizedIdling, where it succeeds;
\* in AwaitLogin, UnitAssignedIdling, GatherComponents and
\* ProductionStageOngoing it leaves the assigned unit and the state alone.
C4_AssignOnlyFromAuthorizedIdling ==
    [][last'.op = "assign_unit" =>
            (state = AUTHORIZED_IDLING_STATE /\ last'.err = NoError)]_vars

\* C5: endOperation takes effect only in ProductionStageOngoing, where it
\* succeeds; in AwaitLogin, AuthorizedIdling, UnitAssignedIdling and
\* GatherComponents it completes no stage and changes no state.
C5_EndOnlyFromProductionStageOngoing ==
    [][last'.op = "end_operation" =>
            (state = PRODUCTION_STAGE_ONGOING_STATE /\ last'.err = NoError)]_vars

\* C6: startOperation succeeds only in UnitAssignedIdling with a unit and an
\* employee present; a successful call stamps the first pending stage of the
\* unit with the start timestamp, the supplied metadata and the passport
\* code of the employee, leaves the other stages alone and moves to
\* ProductionStageOngoing; in every other state the call fails with
\* StateForbidden, stamps nothing and changes no state.
C6_StartOperation ==
    \A info \in StartInfos :
        LET w == start_operation(World, info, TRUE) IN
        /\ w.err = NoError =>
            /\ state = UNIT_ASSIGNED_IDLING_STATE
            /\ unit # NoneObj
            /\ employee # None
            /\ w.state = PRODUCTION_STAGE_ONGOING_STATE
            /\ w.employee = employee
            /\ LET before == Get(unit).biography
                   after == Get(w.unit).biography
               IN /\ DOMAIN after = DOMAIN before
                  /\ \E p \in DOMAIN before :
                        /\ ~before[p].completed
                        /\ \A j \in 1..(p - 1) : before[j].completed
                        /\ after[p].session_start_time = timestamp
                        /\ after[p].additional_info = Some(info)
                        /\ after[p].employee_name = get_passport_code(employee)
                        /\ after[p].name = before[p].name
                        /\ ~after[p].completed
                        /\ \A j \in DOMAIN before \ {p} : after[j] = before[j]
        /\ state # UNIT_ASSIGNED_IDLING_STATE =>
            /\ w.err = StateForbiddenError
            /\ w.unit = unit
            /\ w.state = state
            /\ w.employee = employee

\* a stage of the assigned unit has just been started by the employee
C6_Witness ==
    /\ last = [op |-> "start_operation", err |-> NoError,
               from |-> UNIT_ASSIGNED_IDLING_STATE]
    /\ state = PRODUCTION_STAGE_ONGOING_STATE
    /\ employee # None
    /\ unit # NoneObj
    /\ \E p \in DOMAIN Get(unit).biography :
            /\ Get(unit).biography[p].session_start_time = timestamp
            /\ Get(unit).biography[p].employee_name = get_passport_code(employee)
            /\ Get(unit).biography[p].additional_info = Some(InfoStart)

\* C7: logout in UnitAssignedIdling with a unit assigned and an employee
\* logged in succeeds: it removes the unit and logs the employee out, so the
\* workbench ends in AwaitLogin with no unit and no employee.
C7_LogoutRemovesUnit ==
    (state = UNIT_ASSIGNED_IDLING_STATE /\ unit # NoneObj /\ employee # None) =>
        LET w == log_out(World) IN
        /\ w.err = NoError
        /\ w.state = AWAIT_LOGIN_STATE
        /\ w.unit = NoneObj
        /\ w.employee = None

\* C8: removeUnit in AwaitLogin has no effect, whatever calls led to
\* AwaitLogin: the call fails and the state stays AwaitLogin.
C8_RemoveUnitInAwaitLogin ==
    [][last'.op = "remove_unit" => state # AWAIT_LOGIN_STATE]_vars

\* C9: removeUnit in UnitAssignedIdling or GatherComponents with a unit
\* assigned succeeds: the workbench has no unit, is in AuthorizedIdling, and
\* the employee is who it was.
C9_RemoveUnit ==
    (state \in {UNIT_ASSIGNED_IDLING_STATE, GATHER_COMPONENTS_STATE}
        /\ unit # NoneObj) =>
        LET w == remove_unit(World) IN
        /\ w.err = NoError
        /\ w.unit = NoneObj
        /\ w.state = AUTHORIZED_IDLING_STATE
        /\ w.employee = employee

\* a composite that was waiting for its components has just been removed
C9_Witness ==
    /\ last = [op |-> "remove_unit", err |-> NoError,
               from |-> GATHER_COMPONENTS_STATE]
    /\ state = AUTHORIZED_IDLING_STATE
    /\ unit = NoneObj
    /\ employee # None

\* C10: after a successful assignUnit a unit is assigned, and the state is
\* GatherComponents when a component slot of that unit is empty and
\* UnitAssignedIdling when none is (a unit with no slots among them).
C10_AssignUnit ==
    \A id \in StoredIds :
        LET loaded == get_unit_by_internal_id(db, id)
            w == assign_unit(World, Get(loaded))
        IN (loaded # NoneObj /\ w.err = NoError) =>
            /\ w.unit # NoneObj
            /\ w.state =
                IF \E k \in DOMAIN Get(w.unit).component_slots :
                        Get(w.unit).component_slots[k] = NoneObj
                THEN GATHER_COMPONENTS_STATE
                ELSE UNIT_ASSIGNED_IDLING_STATE

\* a composite with an empty slot has just been assigned
C10_Witness ==
    /\ last.op = "assign_unit"
    /\ last.err = NoError
    /\ state = GATHER_COMPONENTS_STATE
    /\ unit # NoneObj
    /\ \E k \in DOMAIN Get(unit).component_slots :
            Get(unit).component_slots[k] = NoneObj

----------------------------------------------------------------------------
(* Assignment of staged units: claim C11 *)

EmptySlots(u) == {k \in DOMAIN u.component_slots : u.component_slots[k] = NoneObj}

\* C12: assign_component_to_unit fails and fills no slot unless the state is
\* GatherComponents with a unit assigned; a call that succeeds fills one
\* slot, ends in UnitAssignedIdling exactly when that slot was the last
\* empty one and in GatherComponents otherwise, and sets the state-change
\* signal in both cases, also when a watcher had cleared it.
C12_AssignComponent ==
    \A id \in StoredIds :
        LET loaded == get_unit_by_internal_id(db, id)
            cleared == [World EXCEPT !.event = FALSE]
            w == assign_component_to_unit(cleared, Get(loaded))
        IN loaded # NoneObj =>
            /\ ~(state = GATHER_COMPONENTS_STATE /\ unit # NoneObj) =>
                    /\ w.err # NoError
                    /\ Effect(w) = cleared
            /\ w.err = NoError =>
                    /\ state = GATHER_COMPONENTS_STATE /\ unit # NoneObj
                    /\ EmptySlots(Get(w.unit))
                            = EmptySlots(Get(unit)) \ {Get(loaded).schema_id}
                    /\ Get(loaded).schema_id \in EmptySlots(Get(unit))
                    /\ w.event = TRUE
                    /\ w.state = IF EmptySlots(Get(unit)) = {Get(loaded).schema_id}
                                 THEN UNIT_ASSIGNED_IDLING_STATE
                                 ELSE GATHER_COMPONENTS_STATE

\* a component has been assigned to the assembly and one slot is still empty
C12_Witness ==
    /\ last.op = "assign_component" /\ last.err = NoError
    /\ state = GATHER_COMPONENTS_STATE
    /\ unit # NoneObj
    /\ Cardinality(EmptySlots(Get(unit))) = 1
    /\ Len(Get(unit).components_units) = 1

\* C13: in GatherComponents an unknown internal id loads no unit, and a
\* component of a type the unit has no slot for, for a slot that is filled,
\* that is not built or that is featured in a composite is rejected with
\* ValueError; the rejected call leaves the state GatherComponents, the unit
\* with its slots and its list of components as they were, and the stored
\* documents with the back-references as they were.
C13_RejectedAssignment ==
    (state = GATHER_COMPONENTS_STATE /\ unit # NoneObj) =>
        /\ get_unit_by_internal_id(db, get_fullcode(Len(db) + 1)) = NoneObj
        /\ \A id \in StoredIds :
            LET loaded == get_unit_by_internal_id(db, id)
                c == Get(loaded)
                u == Get(unit)
                rejected == \/ c.schema_id \notin DOMAIN u.component_slots
                            \/ u.component_slots[c.schema_id] # NoneObj
                            \/ c.status # "built"
                            \/ c.featured_in_int_id # NoneObj
                r == assign_component(u, c)
                w == assign_component_to_unit(World, c)
            IN loaded # NoneObj =>
                /\ (r.err = ValueError) = rejected
                /\ (w.err = ValueError) = rejected
                /\ rejected =>
                    /\ r.unit.component_slots = u.component_slots
                    /\ r.unit.components_units = u.components_units
                    /\ w.state = GATHER_COMPONENTS_STATE
                    /\ w.unit = unit
                    /\ w.db = db

\* the assembly holds the simple unit of the collection and is offered a
\* unit of each kind that it has to reject
C13_Witness ==
    /\ state = GATHER_COMPONENTS_STATE
    /\ unit # NoneObj
    /\ last.op = "assign_component"
    /\ Get(unit).component_slots["simple"] = get_fullcode(4)
    /\ Get(unit).component_slots["composite"] = NoneObj
    /\ assign_component_to_unit(World, Get(get_unit_by_internal_id(db, get_fullcode(1)))).err
            = ValueError
    /\ assign_component_to_unit(World, Get(get_unit_by_internal_id(db, get_fullcode(4)))).err
            = ValueError
    /\ assign_component_to_unit(World, Get(get_unit_by_internal_id(db, get_fullcode(6)))).err
            = ValueError
    /\ Get(get_unit_by_internal_id(db, get_fullcode(3))).featured_in_int_id = get_fullcode(2)
    /\ assign_component_to_unit(World, Get(get_unit_by_internal_id(db, get_fullcode(3)))).err
            = ValueError

\* C14: no two stored units list the same component, and a component that
\* the assigned unit holds cannot be given to another unit: when the unit is
\* removed, another unit that gathers components is assigned and the
\* component is loaded and offered to it, the call fails with ValueError and
\* the stored back-reference of the component does not name the other unit.
C14_NoSharedComponent ==
    /\ \A i, j \in DOMAIN db :
            i # j => Range(db[i].components_internal_ids)
                        \cap Range(db[j].components_internal_ids) = {}
    /\ (state \in {GATHER_COMPONENTS_STATE, UNIT_ASSIGNED_IDLING_STATE} /\ unit # NoneObj) =>
        \A k \in DOMAIN Get(unit).components_units, id \in StoredIds :
            LET first == Get(unit)
                component_id == first.components_units[k].internal_id
                w1 == remove_unit(World)
                other == get_unit_by_internal_id(w1.db, id)
                w2 == assign_unit(w1, Get(other))
                reloaded == get_unit_by_internal_id(w2.db, component_id)
                w3 == assign_component_to_unit(w2, Get(reloaded))
                stored == get_unit_by_internal_id(w3.db, component_id)
            IN (/\ id # first.internal_id
                /\ other # NoneObj
                /\ w2.err = NoError
                /\ w2.state = GATHER_COMPONENTS_STATE
                /\ Get(w2.unit).internal_id = id) =>
                    /\ w3.err = ValueError
                    /\ Get(stored).featured_in_int_id # id

\* the stages of a stored unit or of a unit in memory are all completed
AllCompleted(stages) == \A p \in DOMAIN stages : stages[p].completed

\* C15: a stored unit and the assigned unit are built exactly when all their
\* stages are completed (at once for a schema without stages); a stored unit
\* turns from production to built only in an end_operation that returns
\* normally, is not premature and finds one stage pending; and a built unit
\* stays built, in the collection and on the workbench.
C15_BuiltWhenCompleted ==
    /\ [](/\ \A i \in DOMAIN db :
                (db[i].status = "built") = AllCompleted(db[i].prod_stage_dicts)
          /\ unit # NoneObj =>
                (Get(unit).status = "built") = AllCompleted(Get(unit).biography))
    /\ [][\A i \in DOMAIN db :
            /\ (db[i].status = "production" /\ db'[i].status = "built") =>
                    /\ last'.op = "end_operation" /\ last'.err = NoError
                    /\ unit # NoneObj /\ Get(unit).uuid = db[i].uuid
                    /\ Cardinality({p \in DOMAIN Get(unit).biography :
                                        ~Get(unit).biography[p].completed}) = 1
                    /\ Len(db'[i].prod_stage_dicts) = Len(Get(unit).biography)
            /\ db[i].status = "built" => db'[i].status = "built"
            /\ (unit' # NoneObj /\ Get(unit').uuid = db[i].uuid /\ db[i].status = "built")
                    => Get(unit').status = "built"]_vars

\* a unit whose first stage was ended prematurely has been built by the
\* end of the stage that was added, next to a unit without stages
C15_Witness ==
    /\ last.op = "end_operation" /\ last.err = NoError
    /\ unit # NoneObj
    /\ Get(unit).status = "built"
    /\ Len(Get(unit).biography) = 2
    /\ Get(unit).biography[1].ended_prematurely
    /\ \E i \in DOMAIN db : db[i].schema_id = "bare" /\ db[i].status = "built"

\* C16: with the camera enabled, a start_operation whose recording cannot be
\* started still starts the pending stage and ends in
\* ProductionStageOngoing; an end_operation whose recording cannot be
\* stopped, or whose media the gateway does not accept, still completes the
\* stage, attaches no media references to it and ends in UnitAssignedIdling.
C16_FailuresDoNotBlock ==
    /\ (/\ record # "NoCamera" /\ unit # NoneObj /\ employee # None
        /\ validate_state_transition(state, PRODUCTION_STAGE_ONGOING_STATE)
        /\ next_pending_operation(Get(unit)) # NoneObj) =>
            LET w == start_operation(World, InfoStart, FALSE)
                p == PendingIndex(Get(unit).biography)
            IN /\ w.err = NoError
               /\ w.state = PRODUCTION_STAGE_ONGOING_STATE
               /\ Get(w.unit).biography[p].session_start_time = timestamp
    /\ (/\ record # "NoCamera" /\ unit # NoneObj /\ employee # None
        /\ state = PRODUCTION_STAGE_ONGOING_STATE
        /\ next_pending_operation(Get(unit)) # NoneObj) =>
            \A stopped, published \in BOOLEAN :
                LET w == end_operation(World, NoneObj, FALSE, stopped, published)
                    p == PendingIndex(Get(unit).biography)
                IN (~stopped \/ ~published) =>
                    /\ w.err = NoError
                    /\ w.state = UNIT_ASSIGNED_IDLING_STATE
                    /\ Get(w.unit).biography[p].completed
                    /\ Get(w.unit).biography[p].video_hashes = NoneObj

\* C17: in every reachable state shutdown returns normally and leaves the
\* workbench in AwaitLogin with no unit and no employee; called in AwaitLogin
\* it changes neither the state, the unit nor the employee.
C17_ShutdownDrains ==
    \A stopped, published \in BOOLEAN :
        LET w == shutdown(World, stopped, published) IN
        /\ w.err = NoError
        /\ w.state = AWAIT_LOGIN_STATE
        /\ w.unit = NoneObj
        /\ w.employee = None
        /\ state = AWAIT_LOGIN_STATE =>
                (w.state = state /\ w.unit = unit /\ w.employee = employee)

\* C20: upload_unit_passport raises when no unit is assigned or no employee
\* is logged in and changes nothing then; with both present the workbench
\* state plays no part, the call returns normally unless the gateway or the
\* printer fails; and in every case the state, the employee and the
\* assigned unit, but for its passport_ipfs_cid, are what they were.
C20_UploadKeepsState ==
    \A outcome \in UploadOutcomes :
        LET w == upload_unit_passport(World, outcome) IN
        /\ (unit = NoneObj \/ employee = None) =>
                (w.err = AssertionError /\ Effect(w) = World)
        /\ (unit # NoneObj /\ employee # None) =>
                ((w.err = NoError) = (outcome \notin {"publish_failed", "print_failed"}))
        /\ w.state = state
        /\ w.employee = employee
        /\ (w.unit = NoneObj) = (unit = NoneObj)
        /\ unit # NoneObj =>
                [Get(w.unit) EXCEPT !.passport_ipfs_cid = Get(unit).passport_ipfs_cid]
                    = Get(unit)

\* a passport has been uploaded while a stage was ongoing
C20_Witness ==
    /\ last.op = "upload_unit_passport" /\ last.err = NoError
    /\ last.from = PRODUCTION_STAGE_ONGOING_STATE
    /\ state = PRODUCTION_STAGE_ONGOING_STATE
    /\ employee # None
    /\ unit # NoneObj
    /\ Get(unit).passport_ipfs_cid = "cid"

\* C18: no watcher waits for the event with a snapshot that differs from
\* the status of the workbench: a watcher that is parked in event.wait() and
\* has not been woken has sent the current status, so that every change
\* reaches every connected watcher.
C18_NoMissedWakeup ==
    \A i \in DOMAIN watcher :
        watcher[i].pc = "waiting" => watcher[i].sent = Some(get_workbench_status_data)

\* C19: an emission appends its message to the feed of every broker that is
\* registered and alive and leaves every other feed alone, and the registry
\* after it holds the brokers that were alive, in their order; no emission
\* raises; every feed holds its messages once and in the order of emission;
\* and an emission never finds a feed full, whatever has been read.
C19_Emission ==
    /\ [][(tasks # <<>> /\ tasks' = Tail(tasks)) =>
            /\ \A b \in DOMAIN brocker :
                    brocker'[b].feed =
                        IF b \in Range(brockers) /\ brocker[b].alive
                        THEN Append(brocker[b].feed, emitted')
                        ELSE brocker[b].feed
            /\ brockers' = SelectSeq(brockers, LAMBDA b : brocker[b].alive)]_vars
    /\ [](worker # NoneObj => Get(worker).err = NoError)
    /\ [](\A b \in DOMAIN brocker :
            \A i, j \in DOMAIN brocker[b].feed :
                i < j => brocker[b].feed[i] < brocker[b].feed[j])
    /\ [](\A b \in Range(brockers) : brocker[b].alive => ~full(brocker[b].feed))

----------------------------------------------------------------------------
(* The passport of a unit, its label and its post to the ledger: claims C21
   and C22 *)

\* C21: when the passport is published, the QR code is to be printed and the
\* printing fails, be it that print_image raises or that the print job fails,
\* upload_unit_passport raises, stores nothing and schedules no post to the
\* Datalog.
C21_PrintFailureAborts ==
    (unit # NoneObj /\ employee # None) =>
        \A outcome \in {"print_failed", "print_task_failed"} :
            LET w == upload_unit_passport(World, outcome) IN
            /\ w.err # NoError
            /\ w.db = db
            /\ w.datalog = datalog

\* C22: a post makes at most retry_cnt = 3 attempts; an attempt that succeeds
\* is its last and gives it the hash; a third attempt that fails makes it
\* raise with no hash, an earlier one leaves it to try again; a document gets
\* a hash only from a post for its unit that succeeded, in the step that ends
\* the post; a post that raised stores nothing; and no step of a post changes
\* the result of the call that scheduled it, the state, the unit or the
\* employee.
C22_PostToDatalog ==
    /\ [](\A k \in DOMAIN datalog.posts :
            LET post == datalog.posts[k] IN
            /\ post.i <= 3
            /\ post.pc \in {"update", "done"} => (post.txn_hash # "" /\ post.i >= 1)
            /\ post.pc = "raised" => (post.txn_hash = "" /\ post.i = 3)
            /\ post.pc = "record" =>
                /\ post.i < 3 /\ post.txn_hash = ""
                /\ post_to_datalog_record(post, TRUE).pc = "update"
                /\ post_to_datalog_record(post, TRUE).txn_hash # ""
                /\ post_to_datalog_record(post, FALSE).txn_hash = ""
                /\ post_to_datalog_record(post, FALSE).pc =
                        IF post.i = 2 THEN "raised" ELSE "record")
    /\ [][\A k \in DOMAIN datalog.posts :
            /\ datalog.posts[k].pc # "record" => datalog'.posts[k].i = datalog.posts[k].i
            /\ datalog.posts[k].pc \in {"done", "raised"} => datalog'.posts[k] = datalog.posts[k]
            /\ datalog'.posts[k] # datalog.posts[k] =>
                    /\ last' = last /\ state' = state /\ unit' = unit /\ employee' = employee
                    /\ datalog'.posts[k].pc # "done" => db' = db]_vars
    /\ [][\A j \in DOMAIN db :
            (db'[j].txn_hash # db[j].txn_hash /\ db'[j].txn_hash # None) =>
                \E k \in DOMAIN datalog.posts :
                    /\ datalog.posts[k].pc = "update" /\ datalog'.posts[k].pc = "done"
                    /\ datalog.posts[k].unit_internal_id = db[j].internal_id
                    /\ db'[j].txn_hash = datalog.posts[k].txn_hash
                    /\ datalog.posts[k].txn_hash # ""]_vars

\* a post has stored its hash at its third attempt while another post for
\* the unit has raised
C22_Witness ==
    \E k, h \in DOMAIN datalog.posts :
        /\ datalog.posts[k].pc = "done" /\ datalog.posts[k].i = 3
        /\ datalog.posts[h].pc = "raised"
        /\ \E j \in DOMAIN db :
                /\ db[j].internal_id = datalog.posts[k].unit_internal_id
                /\ db[j].txn_hash = "txn"
        /\ last.op = "upload_unit_passport" /\ last.err = NoError

----------------------------------------------------------------------------
(* The creation of units and the life of a simple unit: claims C23 and C24 *)

\* C23: create_new_unit returns normally only in AuthorizedIdling, where it
\* stores one new unit unless the label printer fails; in every other state
\* it raises StateForbiddenError and stores nothing; and in every case the
\* state, the assigned unit and the employee are what they were.
C23_CreateUnit ==
    \A schema_id \in SchemaIds, label \in {"disabled", "printed", "failed"} :
        LET w == create_new_unit(World, schema_id, label) IN
        /\ w.err = NoError =>
                /\ state = AUTHORIZED_IDLING_STATE
                /\ Len(w.db) = Len(db) + 1
                /\ SubSeq(w.db, 1, Len(db)) = db
                /\ w.db[Len(w.db)].schema_id = schema_id
        /\ state # AUTHORIZED_IDLING_STATE =>
                (w.err = StateForbiddenError /\ w.db = db)
        /\ w.err # NoError => w.db = db
        /\ w.state = state
        /\ w.unit = unit
        /\ w.employee = employee

\* a second unit has been created, in AuthorizedIdling, while the first one
\* was on the workbench
C23_Witness ==
    /\ last = [op |-> "create_new_unit", err |-> NoError, from |-> AUTHORIZED_IDLING_STATE]
    /\ state = AUTHORIZED_IDLING_STATE
    /\ Len(db) = 2
    /\ unit # NoneObj
    /\ Get(unit).internal_id = db[1].internal_id

\* the positions of the completed stages of a biography
CompletedStages(biography) == {i \in DOMAIN biography : biography[i].completed}

\* C24: a unit without components of a schema with N >= 1 stages is created
\* in production with N pending stages and is assigned into
\* UnitAssignedIdling; while it has a pending stage, start_operation
\* succeeds there and leads to ProductionStageOngoing, end_operation succeeds
\* there and leads back to UnitAssignedIdling; the state enters
\* ProductionStageOngoing only so; a start completes nothing, and only an
\* end_operation completes a stage: the one with number k when k stages are
\* completed and no other, so that the completed stages are always the
\* first k; and the status is production for k < N and built for k = N.
C24_StageCycles ==
    /\ [](unit # NoneObj =>
            LET u == Get(unit)
                N == Len(ProductionSchema[u.schema_id].production_stages)
                k == Cardinality(CompletedStages(u.biography))
            IN /\ Len(u.biography) = N
               /\ \A i \in DOMAIN u.biography : u.biography[i].number = i - 1
               /\ CompletedStages(u.biography) = 1..k
               /\ u.status = IF k < N THEN "production" ELSE "built"
               /\ (state = UNIT_ASSIGNED_IDLING_STATE /\ employee # None /\ k < N) =>
                    /\ start_operation(World, InfoStart, TRUE).err = NoError
                    /\ start_operation(World, InfoStart, TRUE).state
                            = PRODUCTION_STAGE_ONGOING_STATE
               /\ (state = PRODUCTION_STAGE_ONGOING_STATE /\ k < N) =>
                    /\ end_operation(World, NoneObj, FALSE, TRUE, TRUE).err = NoError
                    /\ end_operation(World, NoneObj, FALSE, TRUE, TRUE).state
                            = UNIT_ASSIGNED_IDLING_STATE)
    /\ [](\A i \in DOMAIN db :
            LET loaded == get_unit_by_internal_id(db, db[i].internal_id)
                w == assign_unit(World, Get(loaded))
            IN /\ loaded # NoneObj
               /\ (db[i].status = "production") =
                    (Cardinality(CompletedStages(db[i].prod_stage_dicts))
                        < Len(ProductionSchema[db[i].schema_id].production_stages))
               /\ (state = AUTHORIZED_IDLING_STATE /\ db[i].status = "production") =>
                    /\ w.err = NoError
                    /\ w.state = UNIT_ASSIGNED_IDLING_STATE
                    /\ w.unit = loaded)
    /\ [][/\ (state # PRODUCTION_STAGE_ONGOING_STATE /\ state' = PRODUCTION_STAGE_ONGOING_STATE) =>
                /\ state = UNIT_ASSIGNED_IDLING_STATE
                /\ last' = [op |-> "start_operation", err |-> NoError, from |-> state]
                /\ CompletedStages(Get(unit').biography) = CompletedStages(Get(unit).biography)
          /\ (state = PRODUCTION_STAGE_ONGOING_STATE /\ state' # PRODUCTION_STAGE_ONGOING_STATE
                /\ last'.op = "end_operation") =>
                /\ state' = UNIT_ASSIGNED_IDLING_STATE
                /\ last'.err = NoError
                /\ Get(unit').uuid = Get(unit).uuid
                /\ CompletedStages(Get(unit').biography) =
                        1..(Cardinality(CompletedStages(Get(unit).biography)) + 1)
          /\ (unit # NoneObj /\ unit' # NoneObj /\ Get(unit').uuid = Get(unit).uuid
                /\ CompletedStages(Get(unit').biography) # CompletedStages(Get(unit).biography)) =>
                    /\ last'.op = "end_operation" /\ last'.err = NoError
                    /\ state' = UNIT_ASSIGNED_IDLING_STATE
                    /\ CompletedStages(Get(unit').biography) =
                            1..(Cardinality(CompletedStages(Get(unit).biography)) + 1)
         ]_vars

\* the unit of two stages has gone through its second cycle and is built
C24_Witness ==
    /\ last = [op |-> "end_operation", err |-> NoError, from |-> PRODUCTION_STAGE_ONGOING_STATE]
    /\ state = UNIT_ASSIGNED_IDLING_STATE
    /\ unit # NoneObj
    /\ Get(unit).schema_id = "double"
    /\ CompletedStages(Get(unit).biography) = {1, 2}
    /\ Get(unit).status = "built"
    /\ \E i \in DOMAIN db : db[i].uuid = Get(unit).uuid /\ db[i].status = "built"

----------------------------------------------------------------------------
(* The notifications of rejected calls: claim C25 *)

\* the worlds that the calls of the workbench operations leave when they are
\* made in the current state, with every employee, schema, stored unit and
\* request body, the collaborators working
WorkbenchCalls ==
    {log_in(World, e) : e \in Employees}
    \cup {log_out(World), remove_unit(World)}
    \cup {create_new_unit(World, schema_id, "disabled") : schema_id \in SchemaIds}
    \cup {assign_unit(World, Get(get_unit_by_internal_id(db, id))) : id \in StoredIds}
    \cup {assign_component_to_unit(World, Get(get_unit_by_internal_id(db, id))) : id \in StoredIds}
    \cup {start_operation(World, info, TRUE) : info \in StartInfos}
    \cup {end_operation(World, info, FALSE, TRUE, TRUE) : info \in EndInfos}
    \cup {upload_unit_passport(World, "published")}

\* C25: a call of a workbench operation that is rejected with
\* StateForbiddenError, AssertionError or ValueError (a state or a transition
\* that is not allowed, a unit or an employee that is missing, a component
\* that does not fit) has handed at least one message to the Messenger when
\* the exception leaves the operation.
C25_RejectionsNotify ==
    \A w \in WorkbenchCalls :
        w.err \in {StateForbiddenError, AssertionError, ValueError} => w.messages # <<>>

-----------------------------------------------------------------------------
\* Calls that overlap.  The handlers of the workbench are coroutines of one
\* event loop: a call runs without interruption up to an await that really
\* suspends it, and other calls run until it is resumed.  end_operation and
\* assign_component_to_unit suspend in "await self._database.push_unit(...)"
\* and switch the state only when they are resumed; Unit.end_operation is a
\* coroutine without an await of its own and runs through.  calls holds one
\* entry for every such call: where it stands, the unit object it handed to
\* push_unit, the stage it has completed and what it returned.

MaxCalls == 2

InFlight == {k \in DOMAIN calls : calls[k].pc = "push_unit"}

\* WorkBench.end_operation down to its await of push_unit (no camera)
end_operation_begin(w, additional_info, premature) ==
    IF ~validate_state_transition(w.state, UNIT_ASSIGNED_IDLING_STATE)
    THEN Raise(messenger_emit(w, "error"), StateForbiddenError)
    ELSE IF w.unit = NoneObj THEN Raise(messenger_emit(w, "error"), AssertionError)
    ELSE Raise([w EXCEPT !.unit = Some(Unit_end_operation(Get(@), <<>>, additional_info, premature, timestamp).unit)],
               Unit_end_operation(Get(w.unit), <<>>, additional_info, premature, timestamp).err)

\* the rest of WorkBench.end_operation: the write reaches the database and
\* the state is switched
end_operation_resume(w, pushed) ==
    switch_state([w EXCEPT !.db = push_unit(@, pushed, FALSE)], UNIT_ASSIGNED_IDLING_STATE)

\* WorkBench.assign_component_to_unit down to its await of push_unit, or to
\* its end when slots are left
assign_component_to_unit_begin(w, component) ==
    IF ~(w.state = GATHER_COMPONENTS_STATE /\ w.unit # NoneObj)
    THEN Raise(w, AssertionError)
    ELSE IF assign_component(Get(w.unit), component).err # NoError
    THEN Raise([w EXCEPT !.messages = @ \o assign_component(Get(w.unit), component).messages],
               assign_component(Get(w.unit), component).err)
    ELSE [w EXCEPT !.unit = Some(assign_component(Get(@), component).unit),
                   !.event = TRUE,
                   !.messages = @ \o assign_component(Get(w.unit), component).messages]

\* the rest of WorkBench.assign_component_to_unit
assign_component_to_unit_resume(w, pushed) ==
    switch_state([w EXCEPT !.db = push_unit(@, pushed, TRUE)], UNIT_ASSIGNED_IDLING_STATE)

\* What push_unit writes for call k.  The stage documents are built from the
\* biography before the first await of push_unit, the unit document after it,
\* from the object as it is by then: the object is the one of the workbench
\* as long as that has not been removed.
Pushed(k) ==
    IF unit # NoneObj /\ Get(unit).uuid = calls[k].unit.uuid
    THEN [Get(unit) EXCEPT !.biography = calls[k].unit.biography]
    ELSE calls[k].unit

Call(op, pc, u, stage, err) ==
    [op |-> op, pc |-> pc, unit |-> u, stage |-> stage, err |-> err,
     from |-> state, overlapped |-> InFlight # {}]

\* a call is suspended: what it has done so far is in the state, it has not
\* returned
Suspend(w) == Apply(w) /\ last' = last

\* POST /workbench/end-operation, or the barcode event in
\* ProductionStageOngoing, up to the await
EndOperationBegin(additional_info) ==
    /\ Len(calls) < MaxCalls
    /\ IF end_operation_begin(World, additional_info, FALSE).err # NoError
       THEN /\ Apply(end_operation_begin(World, additional_info, FALSE))
            /\ last' = [op |-> "end_operation",
                        err |-> end_operation_begin(World, additional_info, FALSE).err,
                        from |-> state]
            /\ calls' = Append(calls, Call("end_operation", "returned", NoneObj, 0,
                                    end_operation_begin(World, additional_info, FALSE).err))
       ELSE /\ Suspend(end_operation_begin(World, additional_info, FALSE))
            /\ calls' = Append(calls, Call("end_operation", "push_unit",
                                    Get(end_operation_begin(World, additional_info, FALSE).unit),
                                    PendingIndex(Get(unit).biography), NoError))

\* POST /unit/{id}/assign-component, or the barcode event in GatherComponents
AssignComponentBegin(unit_internal_id) ==
    /\ Len(calls) < MaxCalls
    /\ state = GATHER_COMPONENTS_STATE
    /\ get_unit_by_internal_id(db, unit_internal_id) # NoneObj
    /\ LET w == assign_component_to_unit_begin(World, Get(get_unit_by_internal_id(db, unit_internal_id))) IN
       IF w.err = NoError /\ components_filled(Get(w.unit))
       THEN /\ Suspend(w)
            /\ calls' = Append(calls, Call("assign_component", "push_unit", Get(w.unit), 0, NoError))
       ELSE /\ Apply(w)
            /\ last' = [op |-> "assign_component", err |-> w.err, from |-> state]
            /\ calls' = Append(calls, Call("assign_component", "returned", NoneObj, 0, w.err))

\* push_unit is done and the call runs to its end
Resume(k) ==
    /\ k \in InFlight
    /\ LET w == IF calls[k].op = "end_operation"
                THEN end_operation_resume(World, Pushed(k))
                ELSE assign_component_to_unit_resume(World, Pushed(k)) IN
       /\ Apply(w)
       /\ last' = [op |-> calls[k].op, err |-> w.err, from |-> state]
       /\ calls' = [calls EXCEPT ![k].pc = "returned", ![k].err = w.err]

OverlapDocuments ==
    <<TreeDocument("composite", 1, <<>>, NoneObj, None, "production"),
      TreeDocument("simple", 2, <<>>, NoneObj, None, "built"),
      TreeDocument("double", 3, <<>>, NoneObj, None, "production"),
      TreeDocument("simple", 4, <<>>, NoneObj, None, "production")>>

InitOverlap ==
    /\ state = AWAIT_LOGIN_STATE
    /\ employee = None
    /\ unit = NoneObj
    /\ db = OverlapDocuments
    /\ record = "NoCamera"
    /\ event = FALSE
    /\ last = [op |-> "init", err |-> NoError, from |-> AWAIT_LOGIN_STATE]
    /\ NoClients
    /\ datalog = NoDatalog
    /\ calls = <<>>

\* while a call is suspended the requests that arrive are end-operation,
\* assign-component and remove-unit
NextOverlap ==
    \/ InFlight = {} /\ LogIn("card1")
    \/ InFlight = {} /\ LogOut
    \/ InFlight = {} /\ \E id \in StoredIds : AssignUnit(id)
    \/ InFlight = {} /\ StartOperation(InfoStart, TRUE)
    \/ RemoveUnit
    \/ EndOperationBegin(NoneObj)
    \/ \E id \in StoredIds : AssignComponentBegin(id)
    \/ \E k \in DOMAIN calls : Resume(k)

SpecOverlap == InitOverlap /\ [][NextOverlap]_vars

\* C26: two end_operation calls made in ProductionStageOngoing, of which the
\* second begins while the first is suspended, behave as if one ran after the other: once both have returned,
\* one has succeeded, the other has failed with StateForbiddenError, and only
\* the one that succeeded has completed a stage of the biography.
C26_OverlappingEnds ==
    \A j, k \in DOMAIN calls :
        (/\ j < k
         /\ calls[j].op = "end_operation" /\ calls[k].op = "end_operation"
         /\ calls[j].from = PRODUCTION_STAGE_ONGOING_STATE
         /\ calls[k].from = PRODUCTION_STAGE_ONGOING_STATE
         /\ calls[k].overlapped
         /\ calls[j].pc = "returned" /\ calls[k].pc = "returned")
        => \E a, b \in {j, k} :
              /\ a # b
              /\ calls[a].err = NoError /\ calls[a].stage # 0
              /\ calls[b].err = StateForbiddenError /\ calls[b].stage = 0

\* C27: an assign_component_to_unit call that fills the last slot and a
\* remove_unit call that runs while it is suspended leave what one of them
\* after the other leaves: when the assignment returns and no unit is assigned,
\* the state is AuthorizedIdling, and it is never UnitAssignedIdling while no
\* unit is assigned.
C27_AssignAndRemove ==
    last.op = "assign_component" =>
        /\ state = UNIT_ASSIGNED_IDLING_STATE => unit # NoneObj
        /\ (last.err = NoError /\ unit = NoneObj) => state = AUTHORIZED_IDLING_STATE

\* the stored units as get_unit_by_internal_id hands them to the handlers
LoadedUnits ==
    {Get(get_unit_by_internal_id(db, id)) :
        id \in {i \in StoredIds : get_unit_by_internal_id(db, i) # NoneObj}}

\* C28: Unit.assign_component(c) succeeds exactly when the composite has an
\* empty slot, the schema of c is one of the required ones, the slot of that
\* schema is empty, c is built and c is not featured in a unit; it then fills
\* that slot alone with c, appends c to the components and makes the
\* composite's internal id the back-reference of c, and changes nothing else.
C28_AssignComponent ==
    unit # NoneObj =>
      \A c \in LoadedUnits :
        LET u == Get(unit)
            r == assign_component(u, c)
        IN /\ (r.err = NoError) =
                (/\ \E k \in DOMAIN u.component_slots : u.component_slots[k] = NoneObj
                 /\ c.schema_id \in Range(RequiredIds(ProductionSchema[u.schema_id]))
                 /\ c.schema_id \in DOMAIN u.component_slots
                 /\ u.component_slots[c.schema_id] = NoneObj
                 /\ c.status = "built"
                 /\ c.featured_in_int_id = NoneObj)
           /\ r.err = NoError =>
                /\ r.unit.component_slots =
                      [k \in DOMAIN u.component_slots |->
                          IF k = c.schema_id THEN c.internal_id ELSE u.component_slots[k]]
                /\ r.unit.components_units =
                      Append(u.components_units, [c EXCEPT !.featured_in_int_id = u.internal_id])
                /\ r.unit = [u EXCEPT !.component_slots = r.unit.component_slots,
                                      !.components_units = r.unit.components_units]
           /\ r.err # NoError => r.unit = u

\* a composite with a component and an empty slot after an assignment, and a
\* stored unit that is refused for each of the reasons
C28_Witness ==
    /\ last.op = "assign_component" /\ last.err = NoError
    /\ unit # NoneObj
    /\ \E k \in DOMAIN Get(unit).component_slots : Get(unit).component_slots[k] # NoneObj
    /\ \E k \in DOMAIN Get(unit).component_slots : Get(unit).component_slots[k] = NoneObj
    /\ \E c \in LoadedUnits : assign_component(Get(unit), c).err = NoError
    /\ \E c \in LoadedUnits : c.status # "built" /\ c.schema_id \in DOMAIN Get(unit).component_slots
    /\ \E c \in LoadedUnits : c.featured_in_int_id # NoneObj
    /\ \E c \in LoadedUnits : c.schema_id \notin DOMAIN Get(unit).component_slots

\* C29: the keys of the component slots of the unit on the workbench and of
\* every unit loaded from the database are the required component schemas of
\* its schema, so that components_filled means that every required schema has
\* a component.
C29_SlotKeys ==
    \A u \in LoadedUnits \cup (IF unit = NoneObj THEN {} ELSE {Get(unit)}) :
        /\ DOMAIN u.component_slots = Range(RequiredIds(ProductionSchema[u.schema_id]))
        /\ components_filled(u) =>
              \A k \in Range(RequiredIds(ProductionSchema[u.schema_id])) :
                  \E i \in DOMAIN u.components_units : u.components_units[i].schema_id = k

-----------------------------------------------------------------------------
\* Stages that are ended prematurely, on units of a schema with two stages

MaxStages == 4

EndStage(premature) ==
    /\ (premature /\ unit # NoneObj) => Len(Get(unit).biography) < MaxStages
    /\ Return("end_operation", end_operation(World, NoneObj, premature, TRUE, TRUE))

NextPremature ==
    \/ LogIn("card1")
    \/ LogOut
    \/ CreateUnit("double", "disabled")
    \/ \E id \in StoredIds : AssignUnit(id)
    \/ RemoveUnit
    \/ StartOperation(InfoStart, TRUE)
    \/ \E premature \in BOOLEAN : EndStage(premature)

SpecPremature == Init /\ [][NextPremature]_vars

\* C30: Unit.end_operation with premature = True, on a unit with a pending
\* stage at position p, succeeds; the biography is one stage longer; the stage
\* at p is the original, completed and ended prematurely; the stage at p + 1 is
\* a fresh pending stage with the name and the schema stage of the original
\* and the next number; the stages before p are as they were, the stages after
\* p have moved by one with their number increased by 1; the status of the
\* unit does not become built.
C30_PrematureEnding ==
    (unit # NoneObj /\ PendingIndex(Get(unit).biography) # 0) =>
        LET u == Get(unit)
            old == u.biography
            p == PendingIndex(old)
            r == Unit_end_operation(u, <<>>, NoneObj, TRUE, timestamp)
            new == r.unit.biography
        IN /\ r.err = NoError
           /\ Len(new) = Len(old) + 1
           /\ new[p] = [old[p] EXCEPT !.completed = TRUE,
                                      !.ended_prematurely = TRUE,
                                      !.session_end_time = timestamp,
                                      !.name = Append(@, "(unfinished)")]
           /\ new[p + 1] = ProductionStage(old[p].name, old[p].parent_unit_uuid,
                                           old[p].number + 1, old[p].schema_stage_id)
           /\ \A i \in 1..(p - 1) : new[i] = old[i]
           /\ \A i \in (p + 1)..Len(old) : new[i + 1] = [old[i] EXCEPT !.number = @ + 1]
           /\ \A i \in DOMAIN new : new[i].number = i - 1
           /\ r.unit.status = u.status /\ r.unit.status # "built"
           /\ r.unit = [u EXCEPT !.biography = new]

\* an end_operation has ended the first of several stages prematurely: the
\* duplicate stands between the original and a later stage
C30_Witness ==
    /\ last.op = "end_operation" /\ last.err = NoError
    /\ unit # NoneObj
    /\ \E i \in DOMAIN Get(unit).biography :
          /\ Get(unit).biography[i].ended_prematurely
          /\ i + 2 \in DOMAIN Get(unit).biography
          /\ ~Get(unit).biography[i + 1].completed
          /\ Get(unit).biography[i + 1].schema_stage_id = Get(unit).biography[i].schema_stage_id
          /\ Get(unit).biography[i + 2].schema_stage_id # Get(unit).biography[i].schema_stage_id
          /\ PendingIndex(Get(unit).biography) = i + 1

\* the biographies of the unit on the workbench, of the stored documents and
\* of the units loaded from them
Biographies ==
    (IF unit = NoneObj THEN {} ELSE {Get(unit).biography})
        \cup {db[i].prod_stage_dicts : i \in DOMAIN db}
        \cup {u.biography : u \in LoadedUnits}

\* C31: in every reachable state the stages of every biography carry the
\* numbers 0..N-1, each stage the number of its position, also after stages
\* were ended prematurely at any position and any number of times.
C31_StageNumbers ==
    \A biography \in Biographies :
        \A i \in DOMAIN biography : biography[i].number = i - 1

\* a stored biography in which the first stage and a later stage were ended
\* prematurely
C31_Witness ==
    /\ unit # NoneObj
    /\ Len(Get(unit).biography) = MaxStages
    /\ Get(unit).biography[1].ended_prematurely
    /\ \E i \in 3..MaxStages : Get(unit).biography[i].ended_prematurely
    /\ \E i \in DOMAIN db : db[i].prod_stage_dicts = Get(unit).biography

\* C32: when end_operation closes a stage with the metadata m, the metadata
\* of the stage holds every key of m with the value of m and every other key
\* it held before with its former value, whether the stage had metadata or
\* none.
C32_MergedMetadata ==
    \A m \in {InfoEnd, InfoShutdown} :
        LET w == end_operation(World, Some(m), FALSE, TRUE, TRUE) IN
        w.err = NoError =>
            LET p == PendingIndex(Get(unit).biography)
                old == Get(unit).biography[p].additional_info
                new == Get(w.unit).biography[p].additional_info
            IN /\ new # NoneObj
               /\ \A k \in DOMAIN m : k \in DOMAIN Get(new) /\ Get(new)[k] = m[k]
               /\ old # NoneObj =>
                    \A k \in DOMAIN Get(old) \ DOMAIN m :
                        k \in DOMAIN Get(new) /\ Get(new)[k] = Get(old)[k]

-----------------------------------------------------------------------------
\* The barcode reader (handle_barcode_event): what a scanned internal id does
\* depends on the state of the workbench.

\* the branch of UnitAssignedIdling for a unit other than the assigned one,
\* after remove_unit was called
barcode_replace(removed, u) ==
    IF removed.err # NoError THEN removed ELSE assign_unit(removed, u)

handle_barcode_event_keeping(w, event_string) ==
    IF w.state = PRODUCTION_STAGE_ONGOING_STATE
    THEN end_operation(w, NoneObj, FALSE, TRUE, TRUE)
    ELSE IF get_unit_by_internal_id(w.db, event_string) = NoneObj
    THEN Raise(messenger_emit(w, "warning"), HTTPException)
    ELSE IF w.state = AUTHORIZED_IDLING_STATE
    THEN assign_unit(w, Get(get_unit_by_internal_id(w.db, event_string)))
    ELSE IF w.state = UNIT_ASSIGNED_IDLING_STATE
    THEN IF w.unit # NoneObj /\ Get(w.unit).uuid = Get(get_unit_by_internal_id(w.db, event_string)).uuid
         THEN messenger_emit(w, "info")
         ELSE assign_unit(w, Get(get_unit_by_internal_id(w.db, event_string)))
    ELSE IF w.state = GATHER_COMPONENTS_STATE
    THEN assign_component_to_unit(w, Get(get_unit_by_internal_id(w.db, event_string)))
    ELSE w

handle_barcode_event(w, event_string) ==
    IF w.state = PRODUCTION_STAGE_ONGOING_STATE
    THEN end_operation(w, NoneObj, FALSE, TRUE, TRUE)
    ELSE IF get_unit_by_internal_id(w.db, event_string) = NoneObj
    THEN Raise(messenger_emit(w, "warning"), HTTPException)
    ELSE IF w.state = AUTHORIZED_IDLING_STATE
    THEN assign_unit(w, Get(get_unit_by_internal_id(w.db, event_string)))
    ELSE IF w.state = UNIT_ASSIGNED_IDLING_STATE
    THEN IF w.unit # NoneObj /\ Get(w.unit).uuid = Get(get_unit_by_internal_id(w.db, event_string)).uuid
         THEN messenger_emit(w, "info")
         ELSE barcode_replace(remove_unit(w), Get(get_unit_by_internal_id(w.db, event_string)))
    ELSE IF w.state = GATHER_COMPONENTS_STATE
    THEN assign_component_to_unit(w, Get(get_unit_by_internal_id(w.db, event_string)))
    ELSE w

\* POST /workbench/hid-event from the barcode reader
BarcodeEvent(event_string) == Return("barcode", handle_barcode_event(World, event_string))

\* stored units: one in production, one built with its passport published,
\* a composite with its slot empty and a built unit without a passport
BarcodeDocuments ==
    <<TreeDocument("simple", 1, <<>>, NoneObj, None, "production"),
      TreeDocument("simple", 2, <<>>, NoneObj, "cid", "built"),
      TreeDocument("composite", 3, <<>>, NoneObj, None, "production"),
      TreeDocument("simple", 4, <<>>, NoneObj, None, "built")>>

InitBarcode ==
    /\ state = AWAIT_LOGIN_STATE
    /\ employee = None
    /\ unit = NoneObj
    /\ db = BarcodeDocuments
    /\ record = "NoCamera"
    /\ event = FALSE
    /\ last = [op |-> "init", err |-> NoError, from |-> AWAIT_LOGIN_STATE]
    /\ NoClients
    /\ datalog = NoDatalog
    /\ calls = <<>>

NextBarcode ==
    \/ LogIn("card1")
    \/ LogOut
    \/ \E id \in StoredIds : AssignUnit(id)
    \/ RemoveUnit
    \/ StartOperation(InfoStart, TRUE)
    \/ EndOperation(NoneObj, FALSE, TRUE, TRUE)
    \/ \E id \in StoredIds \cup {get_fullcode(9)} : BarcodeEvent(id)

SpecBarcode == InitBarcode /\ [][NextBarcode]_vars

C34_EmployeeIffLoggedIn == (employee # None) = (state # AWAIT_LOGIN_STATE)

\* C35: in every reachable state a unit is assigned exactly when the state is
\* UnitAssignedIdling, GatherComponents or ProductionStageOngoing.
C35_UnitIffUnitState ==
    (unit # NoneObj) = (state \in {UNIT_ASSIGNED_IDLING_STATE, GATHER_COMPONENTS_STATE,
                                   PRODUCTION_STAGE_ONGOING_STATE})

\* C36: between the calls, while a unit is assigned, the state is
\* GatherComponents exactly when the unit has an empty component slot, so that
\* in UnitAssignedIdling and ProductionStageOngoing every slot is filled.
C36_GatherIffEmptySlot ==
    (unit # NoneObj /\ state \in {UNIT_ASSIGNED_IDLING_STATE, GATHER_COMPONENTS_STATE,
                                  PRODUCTION_STAGE_ONGOING_STATE}) =>
        ((state = GATHER_COMPONENTS_STATE) = ~components_filled(Get(unit)))

\* C37: every completed stage of every biography has a start time and the
\* passport code of an employee: start_operation has started the stage before
\* it was completed.
C37_CompletedWasStarted ==
    \A biography \in Biographies :
        \A i \in DOMAIN biography :
            biography[i].completed =>
                /\ biography[i].session_start_time # None
                /\ biography[i].employee_name # None

\* C38: whenever the state is ProductionStageOngoing between calls, the unit
\* on the workbench has a pending stage that was started, and end_operation
\* closes it and leaves ProductionStageOngoing.
C38_OngoingStageIsStarted ==
    state = PRODUCTION_STAGE_ONGOING_STATE =>
        /\ unit # NoneObj
        /\ PendingIndex(Get(unit).biography) # 0
        /\ Get(unit).biography[PendingIndex(Get(unit).biography)].session_start_time # None
        /\ end_operation(World, NoneObj, FALSE, TRUE, TRUE).err = NoError
        /\ end_operation(World, NoneObj, FALSE, TRUE, TRUE).state = UNIT_ASSIGNED_IDLING_STATE

\* C39: a recording runs only while the state is ProductionStageOngoing, and
\* a start_operation that fails leaves no recording running that it has
\* started: in no reachable state does a call of start_operation raise with a
\* recording ongoing unless it found that recording ongoing and left it alone.
C39_RecordingOnlyWhileOngoing ==
    /\ record = "ongoing" => state = PRODUCTION_STAGE_ONGOING_STATE
    /\ \A started \in BOOLEAN :
          start_operation(World, InfoStart, started).err # NoError =>
              \/ start_operation(World, InfoStart, started).record # "ongoing"
              \/ /\ record = "ongoing"
                 /\ Effect(start_operation(World, InfoStart, started)) = World

\* C40: once the document of a unit holds a transaction hash, no later step
\* sets the stored hash of that unit back to None.
C40_HashIsKept ==
    [][\A i \in DOMAIN db :
          db[i].txn_hash # None =>
              \A j \in DOMAIN db' :
                  db'[j].internal_id = db[i].internal_id => db'[j].txn_hash # None]_vars

====
